---- MODULE Spec2Model ----
(***************************************************************************)
(* webpub: content-addressed static-site publishing.                       *)
(*                                                                         *)
(* The model covers the server's chunk/snapshot store (server/storage.rs), *)
(* the sync protocol handler (server/sync.rs), the HTTP read path          *)
(* (server/http.rs) and the push client (client/push.rs, scanner.rs,       *)
(* merkle.rs, chunker.rs).                                                 *)
(*                                                                         *)
(* Granularity.  A sync connection is one task that handles its frames     *)
(* serially; connections run concurrently and meet only in the Storage     *)
(* mutexes.  One action of the model is one critical section of the index  *)
(* mutex together with the connection-local code around it.  A handler     *)
(* that takes the index mutex twice (CommitTree: get_or_create_site, then  *)
(* the UPDATE/INSERT pair; Rollback: list_snapshots, then                  *)
(* set_current_snapshot) is two actions, and other connections may run     *)
(* in between.                                                             *)
(*                                                                         *)
(* Storage errors.  Every SQLite statement may fail (rusqlite::Error, for  *)
(* instance SQLITE_BUSY or SQLITE_FULL).  An action takes the ordinal f of *)
(* the statement that fails in it (0: none fails).  Statements are         *)
(* autocommitted one by one: the code opens no transaction.                *)
(***************************************************************************)
EXTENDS Integers, Sequences, FiniteSets, TLC

VARIABLES
    chunks,     \* the chunks tables of all shards: set of rows [hash, data]
    sites,      \* table sites: sequence of hostnames, row id = position
    snapshots,  \* table snapshots: sequence of rows, row id = position
    tokens,     \* table tokens: set of token strings
    cst,        \* per sync connection: position in handle_sync and its locals
    client,     \* the push client's position in push() and its locals
    prevCur,    \* history: per site id, the snapshot that was current before the present one
    last        \* history: the step just taken (connection, frame, reply, error)

vars == <<chunks, sites, snapshots, tokens, cst, client, prevCur, last>>

----------------------------------------------------------------------------
(* Bounds and finite universes                                             *)

MaxSnapshots == 2   \* rows the snapshots table may hold in the model

Conns == {1, 2}

\* A hostname or Host header is a sequence of tokens; ":" is the port separator.
HostA == <<"a">>
HostB == <<"b">>
Hostnames == {HostA, HostB}

\* Chunk payloads (byte strings) and BLAKE3, an injective map to digests.
P1 == <<"x">>
P2 == <<"y">>
Payloads == {P1, P2}
Blake3(bytes) == <<"blake3", bytes>>
D1 == Blake3(P1)
D2 == Blake3(P2)
Digests == {D1, D2}

TokenT == "t1"
TokenBad == "bad"

None == <<>>
Some(x) == <<x>>
Ok(v) == [ok |-> TRUE, val |-> v]
Err == [ok |-> FALSE, val |-> None]

----------------------------------------------------------------------------
(* merkle.rs: Node                                                         *)

FileNode(name, chs) ==
    [kind |-> "File", name |-> name, chunks |-> chs, children |-> <<>>]
DirNode(name, kids) ==
    [kind |-> "Directory", name |-> name, chunks |-> <<>>, children |-> kids]

\* Trees a client may put in a CommitTree frame.  TreeOne references D1 twice.
TreeOne == DirNode("", <<FileNode("index.html", <<D1, D1>>)>>)
TreeTwo == DirNode("", <<DirNode("css", <<FileNode("style.css", <<D2>>)>>),
                         FileNode("index.html", <<D1>>)>>)
Trees == {TreeOne, TreeTwo}

----------------------------------------------------------------------------
(* Sequence helpers                                                        *)

RECURSIVE Flatten(_)
Flatten(ss) == IF ss = <<>> THEN <<>> ELSE Head(ss) \o Flatten(Tail(ss))

Reverse(s) == [i \in 1..Len(s) |-> s[Len(s) + 1 - i]]

Elems(s) == {s[i] : i \in 1..Len(s)}

----------------------------------------------------------------------------
(* server/storage.rs: the chunk shards                                     *)

\* get_chunk: SELECT data FROM chunks WHERE hash = ?1.  bad is the set of
\* digests whose lookup fails with a storage error in this call.
get_chunk(rows, hash, bad) ==
    IF hash \in bad THEN Err
    ELSE IF \E r \in rows : r.hash = hash
         THEN Ok(Some((CHOOSE r \in rows : r.hash = hash).data))
         ELSE Ok(None)

\* Mutant: a plain INSERT, which fails on a digest that has a row.
store_chunk_strict(rows, hash, data, f) ==
    IF f = 1 \/ \E r \in rows : r.hash = hash THEN [chunks |-> rows, ret |-> Err]
    ELSE [chunks |-> rows \cup {[hash |-> hash, data |-> data]}, ret |-> Ok(None)]

\* store_chunk: get_chunk_db, then INSERT OR REPLACE; f = 1 when either fails.
store_chunk(rows, hash, data, f) ==
    IF f = 1 THEN [chunks |-> rows, ret |-> Err]
    ELSE [chunks |-> {r \in rows : r.hash # hash} \cup {[hash |-> hash, data |-> data]},
          ret |-> Ok(None)]

\* Mutant: a digest that is found is reported once, at its first position.
has_chunks_dedup(rows, hashes, bad) ==
    IF \E i \in 1..Len(hashes) : hashes[i] \in bad THEN Err
    ELSE LET keep == {i \in 1..Len(hashes) :
                        /\ \E r \in rows : r.hash = hashes[i]
                        /\ \A j \in 1..(i - 1) : hashes[j] # hashes[i]}
         IN  Ok([k \in 1..Cardinality(keep) |->
                    hashes[CHOOSE i \in keep : Cardinality({j \in keep : j <= i}) = k]])

\* Mutant: no digest is ever reported as stored.
has_chunks_none(rows, hashes, bad) ==
    IF \E i \in 1..Len(hashes) : hashes[i] \in bad THEN Err ELSE Ok(<<>>)

\* has_chunks: one SELECT 1 per input hash, in input order; the first failing
\* lookup aborts the call.
\* Mutant: every digest asked for is reported as stored.
has_chunks_all(rows, hashes, bad) ==
    IF \E i \in 1..Len(hashes) : hashes[i] \in bad THEN Err ELSE Ok(hashes)

has_chunks(rows, hashes, bad) ==
    IF \E i \in 1..Len(hashes) : hashes[i] \in bad THEN Err
    ELSE LET exists(h) == \E r \in rows : r.hash = h
         IN  Ok(SelectSeq(hashes, exists))

----------------------------------------------------------------------------
(* server/storage.rs: tokens                                               *)

\* Mutant: every token is accepted.
verify_token_any(toks, token, f) == IF f = 1 THEN Err ELSE Ok(TRUE)

\* Mutant: a token is accepted as soon as the table has a row.
verify_token_nonempty(toks, token, f) ==
    IF f = 1 THEN Err ELSE Ok(toks # {})

verify_token(toks, token, f) ==
    IF f = 1 THEN Err ELSE Ok(token \in toks)

\* Mutant: the DELETE removes no row.
revoke_token_kept(toks, token, f) ==
    IF f = 1 THEN [tokens |-> toks, ret |-> Err]
    ELSE [tokens |-> toks, ret |-> Ok(None)]

\* revoke_token: DELETE FROM tokens WHERE token = ?1.
revoke_token(toks, token, f) ==
    IF f = 1 THEN [tokens |-> toks, ret |-> Err]
    ELSE [tokens |-> toks \ {token}, ret |-> Ok(None)]

----------------------------------------------------------------------------
(* server/storage.rs: sites and snapshots                                  *)

\* SELECT id FROM sites WHERE hostname = ?1
SiteId(ss, hostname) ==
    IF \E i \in 1..Len(ss) : ss[i] = hostname
    THEN Some(CHOOSE i \in 1..Len(ss) : ss[i] = hostname)
    ELSE None

\* get_or_create_site: SELECT (statement 1); INSERT when absent (statement 2).
get_or_create_site(ss, hostname, f) ==
    LET existing == SiteId(ss, hostname) IN
    IF f = 1 THEN [sites |-> ss, ret |-> Err]
    ELSE IF existing # None THEN [sites |-> ss, ret |-> Ok(existing[1])]
    ELSE IF f = 2 THEN [sites |-> ss, ret |-> Err]
    ELSE [sites |-> Append(ss, hostname), ret |-> Ok(Len(ss) + 1)]

\* rmp_serde::to_vec / from_slice of a Node (the stored tree_data blob).
Serialize(tree) == <<"rmp", tree>>
Deserialize(blob) == blob[2]

\* Mutant: the UPDATE that clears the flags is left out.
ClearCurrentSkipped(snaps, site_id) == snaps

\* UPDATE snapshots SET is_current = 0 WHERE site_id = ?1
\* Mutant: the UPDATE has no WHERE clause.
ClearCurrentAll(snaps, site_id) ==
    [i \in 1..Len(snaps) |-> [snaps[i] EXCEPT !.is_current = FALSE]]

ClearCurrent(snaps, site_id) ==
    [i \in 1..Len(snaps) |->
        IF snaps[i].site_id = site_id THEN [snaps[i] EXCEPT !.is_current = FALSE]
        ELSE snaps[i]]

\* Mutant: the UPDATE that sets the target's flag is left out.
SetCurrentSkipped(snaps, id) == snaps

\* UPDATE snapshots SET is_current = 1 WHERE id = ?1
SetCurrent(snaps, id) ==
    [i \in 1..Len(snaps) |->
        IF i = id THEN [snaps[i] EXCEPT !.is_current = TRUE] ELSE snaps[i]]

\* Mutant: a site that has a current snapshot keeps it; the new row is
\* inserted with is_current = 0.
create_snapshot_first_wins(snaps, site_id, tree, f) ==
    IF f = 1 THEN [snapshots |-> snaps, ret |-> Err]
    ELSE IF f = 2 THEN [snapshots |-> snaps, ret |-> Err]
    ELSE [snapshots |-> Append(snaps,
                               [site_id |-> site_id, tree_data |-> Serialize(tree),
                                is_current |->
                                    \A i \in 1..Len(snaps) :
                                        snaps[i].site_id = site_id => ~snaps[i].is_current]),
          ret |-> Ok(Len(snaps) + 1)]

\* create_snapshot after get_or_create_site returned site_id: the second
\* critical section.  UPDATE (statement 1), INSERT (statement 2); each is
\* committed on its own.  The new row id is last_insert_rowid().
\* Mutant: the id returned counts the rows of the site, not of the table.
create_snapshot_per_site(snaps, site_id, tree, f) ==
    IF f = 1 THEN [snapshots |-> snaps, ret |-> Err]
    ELSE IF f = 2 THEN [snapshots |-> ClearCurrent(snaps, site_id), ret |-> Err]
    ELSE [snapshots |-> Append(ClearCurrent(snaps, site_id),
                               [site_id |-> site_id, tree_data |-> Serialize(tree),
                                is_current |-> TRUE]),
          ret |-> Ok(Cardinality({i \in 1..Len(snaps) : snaps[i].site_id = site_id}) + 1)]

create_snapshot(snaps, site_id, tree, f) ==
    IF f = 1 THEN [snapshots |-> snaps, ret |-> Err]
    ELSE IF f = 2 THEN [snapshots |-> ClearCurrent(snaps, site_id), ret |-> Err]
    ELSE [snapshots |-> Append(ClearCurrent(snaps, site_id),
                               [site_id |-> site_id, tree_data |-> Serialize(tree),
                                is_current |-> TRUE]),
          ret |-> Ok(Len(snaps) + 1)]

\* get_current_snapshot: the first row of the site with is_current = 1.
get_current_snapshot(ss, snaps, hostname, f) ==
    LET sid == SiteId(ss, hostname)
        cur == {i \in 1..Len(snaps) :
                    sid # None /\ snaps[i].site_id = sid[1] /\ snaps[i].is_current}
    IN  IF f = 1 THEN Err
        ELSE IF cur = {} THEN Ok(None)
        ELSE LET id == CHOOSE i \in cur : \A j \in cur : i <= j
             IN  Ok(Some([id |-> id, tree |-> Deserialize(snaps[id].tree_data)]))

\* list_snapshots: the site's rows, ORDER BY id DESC, as (id, is_current).
list_snapshots(ss, snaps, hostname, f) ==
    LET sid == SiteId(ss, hostname)
        all == [i \in 1..Len(snaps) |->
                  [id |-> i, site_id |-> snaps[i].site_id,
                   is_current |-> snaps[i].is_current]]
        mine(r) == sid # None /\ r.site_id = sid[1]
        proj(s) == [i \in 1..Len(s) |-> [id |-> s[i].id, is_current |-> s[i].is_current]]
    IN  IF f = 1 THEN Err
        ELSE Ok(proj(SelectSeq(Reverse(all), mine)))

\* Mutant: the snapshot is looked up by id alone, not by id and site.
set_current_snapshot_any_site(ss, snaps, hostname, snapshot_id, f) ==
    LET sid == SiteId(ss, hostname)
        exists == sid # None /\ snapshot_id \in 1..Len(snaps)
    IN  IF f = 1 THEN [snapshots |-> snaps, ret |-> Err]
        ELSE IF sid = None THEN [snapshots |-> snaps, ret |-> Ok(FALSE)]
        ELSE IF f = 2 THEN [snapshots |-> snaps, ret |-> Err]
        ELSE IF ~exists THEN [snapshots |-> snaps, ret |-> Ok(FALSE)]
        ELSE IF f = 3 THEN [snapshots |-> snaps, ret |-> Err]
        ELSE IF f = 4 THEN [snapshots |-> ClearCurrent(snaps, sid[1]), ret |-> Err]
        ELSE [snapshots |-> SetCurrent(ClearCurrent(snaps, sid[1]), snapshot_id),
              ret |-> Ok(TRUE)]

\* Mutant: the UPDATE that clears the site's flags is left out.
set_current_snapshot_no_clear(ss, snaps, hostname, snapshot_id, f) ==
    LET sid == SiteId(ss, hostname)
        exists == /\ sid # None
                  /\ snapshot_id \in 1..Len(snaps)
                  /\ snaps[snapshot_id].site_id = sid[1]
    IN  IF f = 1 THEN [snapshots |-> snaps, ret |-> Err]
        ELSE IF sid = None THEN [snapshots |-> snaps, ret |-> Ok(FALSE)]
        ELSE IF f = 2 THEN [snapshots |-> snaps, ret |-> Err]
        ELSE IF ~exists THEN [snapshots |-> snaps, ret |-> Ok(FALSE)]
        ELSE IF f \in {3, 4} THEN [snapshots |-> snaps, ret |-> Err]
        ELSE [snapshots |-> SetCurrent(snaps, snapshot_id), ret |-> Ok(TRUE)]

\* Mutant: the flags of the site are cleared and the target's is not set.
set_current_snapshot_clear_only(ss, snaps, hostname, snapshot_id, f) ==
    LET sid == SiteId(ss, hostname)
        exists == /\ sid # None
                  /\ snapshot_id \in 1..Len(snaps)
                  /\ snaps[snapshot_id].site_id = sid[1]
    IN  IF f = 1 THEN [snapshots |-> snaps, ret |-> Err]
        ELSE IF sid = None THEN [snapshots |-> snaps, ret |-> Ok(FALSE)]
        ELSE IF f = 2 THEN [snapshots |-> snaps, ret |-> Err]
        ELSE IF ~exists THEN [snapshots |-> snaps, ret |-> Ok(FALSE)]
        ELSE IF f = 3 THEN [snapshots |-> snaps, ret |-> Err]
        ELSE [snapshots |-> ClearCurrent(snaps, sid[1]),
              ret |-> IF f = 4 THEN Err ELSE Ok(TRUE)]

\* set_current_snapshot: SELECT site (1), SELECT snapshot of that site (2),
\* UPDATE clearing the site's flags (3), UPDATE setting the target (4).
set_current_snapshot(ss, snaps, hostname, snapshot_id, f) ==
    LET sid == SiteId(ss, hostname)
        exists == /\ sid # None
                  /\ snapshot_id \in 1..Len(snaps)
                  /\ snaps[snapshot_id].site_id = sid[1]
    IN  IF f = 1 THEN [snapshots |-> snaps, ret |-> Err]
        ELSE IF sid = None THEN [snapshots |-> snaps, ret |-> Ok(FALSE)]
        ELSE IF f = 2 THEN [snapshots |-> snaps, ret |-> Err]
        ELSE IF ~exists THEN [snapshots |-> snaps, ret |-> Ok(FALSE)]
        ELSE IF f = 3 THEN [snapshots |-> snaps, ret |-> Err]
        ELSE IF f = 4 THEN [snapshots |-> ClearCurrent(snaps, sid[1]), ret |-> Err]
        ELSE [snapshots |-> SetCurrent(ClearCurrent(snaps, sid[1]), snapshot_id),
              ret |-> Ok(TRUE)]

----------------------------------------------------------------------------
(* server/sync.rs: chunk verification of a tree                            *)

\* Mutant: a digest referenced several times by one file is counted once.
CountMissingDistinct(chs, rows, bad, missing) ==
    missing + Cardinality({h \in Elems(chs) :
                             ~get_chunk(rows, h, bad).ok \/ get_chunk(rows, h, bad).val = None})

\* The loop over File.chunks: one get_chunk per reference; a lookup that
\* errs counts as missing (`.ok().flatten().is_none()`).
RECURSIVE CountMissing(_, _, _, _)
CountMissing(chs, rows, bad, missing) ==
    IF chs = <<>> THEN missing
    ELSE LET r == get_chunk(rows, Head(chs), bad)
             absent == ~r.ok \/ r.val = None
         IN  CountMissing(Tail(chs), rows, bad, IF absent THEN missing + 1 ELSE missing)

RECURSIVE verify_node_chunks(_, _, _, _)
RECURSIVE VerifyChildren(_, _, _, _)
verify_node_chunks(node, rows, bad, missing) ==
    IF node.kind = "File" THEN CountMissing(node.chunks, rows, bad, missing)
    ELSE VerifyChildren(node.children, rows, bad, missing)
\* Mutant: only the first child of a directory is verified.
VerifyChildrenFirst(kids, rows, bad, missing) ==
    IF kids = <<>> THEN missing
    ELSE verify_node_chunks(Head(kids), rows, bad, missing)

VerifyChildren(kids, rows, bad, missing) ==
    IF kids = <<>> THEN missing
    ELSE VerifyChildren(Tail(kids), rows, bad,
                        verify_node_chunks(Head(kids), rows, bad, missing))

\* Mutant: the tree is accepted without looking up its chunks.
verify_tree_chunks_skipped(tree, rows, bad) == Ok(None)

\* verify_tree_chunks: Ok(()) or Err(missing)
verify_tree_chunks(tree, rows, bad) ==
    LET missing == verify_node_chunks(tree, rows, bad, 0)
    IN  IF missing > 0 THEN [ok |-> FALSE, val |-> missing] ELSE Ok(None)

----------------------------------------------------------------------------
(* chunker.rs: chunk_data                                                  *)

\* File contents are sequences of blocks of 16 KiB; the chunk sizes are in
\* blocks (16 and 64 KiB in the source).
MIN_SIZE == 1
MAX_SIZE == 4

\* The blocks at whose end FastCDC's rolling hash meets its mask.
CutBlocks == {"y"}

\* Mutant: no upper limit on the length of a chunk.
CutLengthUncapped(data) ==
    IF Len(data) <= MIN_SIZE THEN Len(data)
    ELSE LET cuts == {k \in MIN_SIZE..Len(data) : data[k] \in CutBlocks}
         IN  IF cuts = {} THEN Len(data) ELSE CHOOSE k \in cuts : \A j \in cuts : k <= j

\* The length of the first chunk FastCDC cuts from data: all of it when it is
\* no longer than MIN_SIZE, else up to the first cut point from MIN_SIZE on,
\* and MAX_SIZE at most.
CutLength(data) ==
    IF Len(data) <= MIN_SIZE THEN Len(data)
    ELSE LET limit == IF Len(data) < MAX_SIZE THEN Len(data) ELSE MAX_SIZE
             cuts == {k \in MIN_SIZE..limit : data[k] \in CutBlocks}
         IN  IF cuts = {} THEN limit ELSE CHOOSE k \in cuts : \A j \in cuts : k <= j

Chunk(data) == [hash |-> Blake3(data), data |-> data]

RECURSIVE chunk_data(_)
chunk_data(data) ==
    IF data = <<>> THEN <<>>
    ELSE LET k == CutLength(data)
         IN  <<Chunk(SubSeq(data, 1, k))>> \o chunk_data(SubSeq(data, k + 1, Len(data)))

----------------------------------------------------------------------------
(* scanner.rs: scan_directory                                              *)

\* The file system under a path: a regular file with its contents, a
\* directory with its entries in read_dir order, a symlink, or nothing.
FsFile(data) == [kind |-> "file", data |-> data, children |-> <<>>]
FsDir(children) == [kind |-> "dir", data |-> <<>>, children |-> children]
FsSymlink == [kind |-> "symlink", data |-> <<>>, children |-> <<>>]
FsAbsent == [kind |-> "absent", data |-> <<>>, children |-> <<>>]
DirEntry(name, entry) == [name |-> name, entry |-> entry]

\* The site of tests/integration_test.rs with a symlink added, a path that is
\* a regular file, and a path that does not exist.
SiteDir ==
    FsDir(<<DirEntry("index.html", FsFile(<<"x">>)),
            DirEntry("link", FsSymlink),
            DirEntry("css", FsDir(<<DirEntry("style.css", FsFile(<<"y", "x">>))>>))>>)
PlainFile == FsFile(<<"y", "x">>)
PushDirs == {SiteDir, PlainFile, FsAbsent}

ScannedFile(name, data) ==
    [kind |-> "File", name |-> name, data |-> data, children |-> <<>>]
ScannedDirectory(name, children) ==
    [kind |-> "Directory", name |-> name, data |-> <<>>, children |-> children]

\* The names of the model in the byte order str::cmp gives them.
NameOrder == <<"", "css", "index.html", "link", "style.css">>
NameRank(n) == CHOOSE i \in 1..Len(NameOrder) : NameOrder[i] = n

\* children.sort_by(|a, b| a.name().cmp(b.name())): a stable sort.
RECURSIVE SortByName(_)
SortByName(s) ==
    IF s = <<>> THEN <<>>
    ELSE LET x == s[Len(s)]
             front == SortByName(SubSeq(s, 1, Len(s) - 1))
             k == Cardinality({i \in 1..Len(front) :
                                 NameRank(front[i].name) <= NameRank(x.name)})
         IN  SubSeq(front, 1, k) \o <<x>> \o SubSeq(front, k + 1, Len(front))

\* scan_entry: a file is read, a directory is scanned entry by entry
\* (symlinks and entries whose scan fails are skipped) and sorted by name;
\* a path without metadata or a special file is an error.
RECURSIVE scan_entry(_, _)
RECURSIVE ScanChildren(_)
scan_entry(e, name) ==
    IF e.kind = "file" THEN Ok(ScannedFile(name, e.data))
    ELSE IF e.kind = "dir"
    THEN Ok(ScannedDirectory(name, SortByName(ScanChildren(e.children))))
    ELSE Err
ScanChildren(entries) ==
    IF entries = <<>> THEN <<>>
    ELSE LET c == Head(entries)
             r == scan_entry(c.entry, c.name)
         IN  (IF c.entry.kind = "symlink" \/ ~r.ok THEN <<>> ELSE <<r.val>>)
                \o ScanChildren(Tail(entries))

\* flatten_entry: the directory itself with its children emptied, then the
\* flattened children.
RECURSIVE flatten_entry(_)
flatten_entry(entry) ==
    IF entry.kind = "File" THEN <<entry>>
    ELSE <<ScannedDirectory(entry.name, <<>>)>>
            \o Flatten([i \in 1..Len(entry.children) |-> flatten_entry(entry.children[i])])

\* Mutant: the first item lists the entries of the directory as read_dir
\* gives them.
scan_directory_read_dir_order(path) ==
    LET entry == scan_entry(path, "")
    IN  IF ~entry.ok THEN Err
        ELSE IF path.kind = "dir"
        THEN Ok(<<ScannedDirectory("", ScanChildren(path.children))>>)
        ELSE Ok(flatten_entry(entry.val))

scan_directory(path) ==
    LET entry == scan_entry(path, "")
    IN  IF entry.ok THEN Ok(flatten_entry(entry.val)) ELSE Err

----------------------------------------------------------------------------
(* merkle.rs: build_tree                                                   *)

\* build_node: the node of an entry and the chunks of its files, in order.
\* (The permissions, size and hash fields of a Node are not in the model.)
RECURSIVE build_node(_)
build_node(entry) ==
    IF entry.kind = "File"
    THEN LET cs == chunk_data(entry.data)
         IN  [node |-> FileNode(entry.name, [i \in 1..Len(cs) |-> cs[i].hash]),
              chunks |-> cs]
    ELSE LET ks == [i \in 1..Len(entry.children) |-> build_node(entry.children[i])]
         IN  [node |-> DirNode(entry.name, [i \in 1..Len(ks) |-> ks[i].node]),
              chunks |-> Flatten([i \in 1..Len(ks) |-> ks[i].chunks])]

build_tree(entry) ==
    LET b == build_node(entry) IN [tree |-> b.node, chunks |-> b.chunks]

\* The hash field that build_node gives a node: for a File BLAKE3 over its
\* chunk hashes, for a Directory BLAKE3 over name and hash of every child
\* (and the child's permissions, which the model leaves out).
RECURSIVE NodeHash(_)
NodeHash(node) ==
    IF node.kind = "File" THEN Blake3(node.chunks)
    ELSE Blake3([i \in 1..Len(node.children) |->
                    <<node.children[i].name, NodeHash(node.children[i])>>])

----------------------------------------------------------------------------
(* archive.rs: write_archive, read_archive                                 *)

\* An archive file is a sequence of cells: the magic, the version, the
\* offset of the index, the chunk data block by block, and the index.
MAGIC == "WEBPUB"
VERSION == 1
HEADER_SIZE == 3

\* The loop over the chunks: a chunk whose hash has an offset is skipped,
\* the others are appended and their (offset, size) recorded.
RECURSIVE WriteChunks(_, _, _)
WriteChunks(cs, body, chunk_offsets) ==
    IF cs = <<>> THEN [body |-> body, chunk_offsets |-> chunk_offsets]
    ELSE LET chunk == Head(cs) IN
         IF \E o \in chunk_offsets : o.hash = chunk.hash
         THEN WriteChunks(Tail(cs), body, chunk_offsets)
         ELSE WriteChunks(Tail(cs), body \o chunk.data,
                          chunk_offsets \cup {[hash |-> chunk.hash,
                                               offset |-> HEADER_SIZE + Len(body),
                                               size |-> Len(chunk.data)]})

write_archive(tree, cs) ==
    LET w == WriteChunks(cs, <<>>, {})
    IN  <<MAGIC, VERSION, HEADER_SIZE + Len(w.body)>> \o w.body
            \o <<Serialize([tree |-> tree, chunk_offsets |-> w.chunk_offsets])>>

\* The chunks of a file read back by offset and size; a hash without an
\* offset is the error "missing chunk".
RECURSIVE ReadChunks(_, _, _, _)
ReadChunks(hashes, file, chunk_offsets, data) ==
    IF hashes = <<>> THEN Ok(data)
    ELSE LET at == {o \in chunk_offsets : o.hash = Head(hashes)} IN
         IF at = {} THEN Err
         ELSE LET o == CHOOSE x \in at : TRUE
              IN  ReadChunks(Tail(hashes), file, chunk_offsets,
                             data \o SubSeq(file, o.offset + 1, o.offset + o.size))

\* extract_node: what the node leaves under base_path, as an entry of it.
RECURSIVE extract_node(_, _, _)
RECURSIVE ExtractChildren(_, _, _)
extract_node(node, file, chunk_offsets) ==
    IF node.kind = "File"
    THEN LET r == ReadChunks(node.chunks, file, chunk_offsets, <<>>)
         IN  IF r.ok THEN Ok(DirEntry(node.name, FsFile(r.val))) ELSE Err
    ELSE LET r == ExtractChildren(node.children, file, chunk_offsets)
         IN  IF r.ok THEN Ok(DirEntry(node.name, FsDir(r.val))) ELSE Err
ExtractChildren(kids, file, chunk_offsets) ==
    IF kids = <<>> THEN Ok(<<>>)
    ELSE LET r == extract_node(Head(kids), file, chunk_offsets)
             rest == ExtractChildren(Tail(kids), file, chunk_offsets)
         IN  IF r.ok /\ rest.ok THEN Ok(<<r.val>> \o rest.val) ELSE Err

\* read_archive: the output directory after extraction.  A root Directory
\* named "" is the output directory itself; a root File named "" would be
\* created at the path of the output directory, which fails.
read_archive(file) ==
    IF Len(file) < HEADER_SIZE + 1 \/ file[1] # MAGIC \/ file[2] # VERSION THEN Err
    ELSE LET index == Deserialize(file[file[3] + 1])
             r == extract_node(index.tree, file, index.chunk_offsets)
         IN  IF ~r.ok THEN Err
             ELSE IF r.val.name # "" THEN Ok(FsDir(<<r.val>>))
             ELSE IF r.val.entry.kind = "dir" THEN Ok(r.val.entry)
             ELSE Err

----------------------------------------------------------------------------
(* server/http.rs: handle_request                                          *)

\* A request path is a sequence of "/" and names, starting with "/".
RECURSIVE TrimStartSlashes(_)
TrimStartSlashes(path) ==
    IF path # <<>> /\ Head(path) = "/" THEN TrimStartSlashes(Tail(path)) ELSE path

IsName(t) == t # "/"

\* Mutant: a File reached with segments left over is returned.
RECURSIVE find_node_through_file(_, _)
find_node_through_file(node, parts) ==
    IF parts = <<>> \/ node.kind = "File" THEN Some(node)
    ELSE LET hit == {i \in 1..Len(node.children) : node.children[i].name = Head(parts)}
         IN  IF hit = {} THEN None
             ELSE find_node_through_file(
                    node.children[CHOOSE i \in hit : \A j \in hit : i <= j], Tail(parts))

RECURSIVE find_node_recursive(_, _)
find_node_recursive(node, parts) ==
    IF parts = <<>> THEN Some(node)
    ELSE IF node.kind = "Directory"
    THEN LET hit == {i \in 1..Len(node.children) : node.children[i].name = Head(parts)}
         IN  IF hit = {} THEN None
             ELSE find_node_recursive(
                    node.children[CHOOSE i \in hit : \A j \in hit : i <= j], Tail(parts))
    ELSE None

find_node(tree, path) ==
    LET p == TrimStartSlashes(path) IN
    IF p = <<>>
    THEN IF tree.kind = "Directory"
         THEN LET hit == {i \in 1..Len(tree.children) :
                            tree.children[i].name = "index.html"}
              IN  IF hit = {} THEN None
                  ELSE Some(tree.children[CHOOSE i \in hit : \A j \in hit : i <= j])
         ELSE None
    ELSE find_node_recursive(tree, SelectSeq(p, IsName))

\* host.split(':').next()
StripPort(host) ==
    LET colons == {i \in 1..Len(host) : host[i] = ":"}
    IN  IF colons = {} THEN host
        ELSE SubSeq(host, 1, (CHOOSE i \in colons : \A j \in colons : i <= j) - 1)

Response(status, body) == [type |-> "Response", status |-> status, body |-> body]

\* Mutant: a digest without a row is skipped and the rest is served.
RECURSIVE ReassembleSkipMissing(_, _, _, _)
ReassembleSkipMissing(hashes, rows, bad, data) ==
    IF hashes = <<>> THEN Response(200, data)
    ELSE LET r == get_chunk(rows, Head(hashes), bad)
         IN  IF ~r.ok THEN Response(500, <<"storage error">>)
             ELSE IF r.val = None
             THEN ReassembleSkipMissing(Tail(hashes), rows, bad, data)
             ELSE ReassembleSkipMissing(Tail(hashes), rows, bad, data \o r.val[1])

\* The reassembly loop: the chunks' data in order, or the first failure.
RECURSIVE Reassemble(_, _, _, _)
Reassemble(hashes, rows, bad, data) ==
    IF hashes = <<>> THEN Response(200, data)
    ELSE LET r == get_chunk(rows, Head(hashes), bad)
         IN  IF ~r.ok THEN Response(500, <<"storage error">>)
             ELSE IF r.val = None THEN Response(500, <<"Missing chunk">>)
             ELSE Reassemble(Tail(hashes), rows, bad, data \o r.val[1])

\* Mutant: the index.html fallback is applied again to a directory named
\* index.html.
handle_request_index_again(ss, snaps, rows, host, path_str, f, bad) ==
    LET hostname == StripPort(host)
        snapshot == get_current_snapshot(ss, snaps, hostname, f)
    IN  IF ~snapshot.ok THEN Response(500, <<"storage error">>)
        ELSE IF snapshot.val = None THEN Response(404, <<"Site not found">>)
        ELSE
        LET tree == snapshot.val[1].tree
            node == find_node(tree, path_str)
            index_path == IF path_str[Len(path_str)] = "/"
                          THEN path_str \o <<"index.html">>
                          ELSE path_str \o <<"/", "index.html">>
            index == find_node(tree, index_path)
            again == find_node(tree, index_path \o <<"/", "index.html">>)
        IN  IF node = None THEN Response(404, <<"Not found">>)
            ELSE IF node[1].kind = "File" THEN Reassemble(node[1].chunks, rows, bad, <<>>)
            ELSE IF index # None /\ index[1].kind = "File"
            THEN Reassemble(index[1].chunks, rows, bad, <<>>)
            ELSE IF again # None /\ again[1].kind = "File"
            THEN Reassemble(again[1].chunks, rows, bad, <<>>)
            ELSE Response(404, <<"Not found">>)

handle_request(ss, snaps, rows, host, path_str, f, bad) ==
    LET hostname == StripPort(host)
        snapshot == get_current_snapshot(ss, snaps, hostname, f)
    IN  IF ~snapshot.ok THEN Response(500, <<"storage error">>)
        ELSE IF snapshot.val = None THEN Response(404, <<"Site not found">>)
        ELSE
        LET tree == snapshot.val[1].tree
            node == find_node(tree, path_str)
            index_path == IF path_str[Len(path_str)] = "/"
                          THEN path_str \o <<"index.html">>
                          ELSE path_str \o <<"/", "index.html">>
            index == find_node(tree, index_path)
        IN  IF node = None THEN Response(404, <<"Not found">>)
            ELSE IF node[1].kind = "File" THEN Reassemble(node[1].chunks, rows, bad, <<>>)
            ELSE IF index # None /\ index[1].kind = "File"
            THEN Reassemble(index[1].chunks, rows, bad, <<>>)
            ELSE Response(404, <<"Not found">>)

----------------------------------------------------------------------------
(* protocol.rs: ClientMessage, ServerMessage; the WebSocket frame kinds     *)

Auth(token) == [type |-> "Auth", token |-> token]
HaveChunks(hashes) == [type |-> "HaveChunks", hashes |-> hashes]
ChunkData(hash, data) == [type |-> "ChunkData", hash |-> hash, data |-> data]
CommitTree(hostname, tree) == [type |-> "CommitTree", hostname |-> hostname, tree |-> tree]
ListSnapshots(hostname) == [type |-> "ListSnapshots", hostname |-> hostname]
Rollback(hostname, snapshot_id) ==
    [type |-> "Rollback", hostname |-> hostname, snapshot_id |-> snapshot_id]
\* Message::Text / Ping / Pong, Message::Close, and a binary frame that does
\* not decode to a ClientMessage.
TextFrame == [type |-> "Text"]
CloseFrame == [type |-> "Close"]
GarbageFrame == [type |-> "Garbage"]

AuthOk == [type |-> "AuthOk"]
AuthFailed == [type |-> "AuthFailed"]
NeedChunks(hashes) == [type |-> "NeedChunks", hashes |-> hashes]
ChunkAck(hash) == [type |-> "ChunkAck", hash |-> hash]
CommitOk(id) == [type |-> "CommitOk", snapshot_id |-> id]
CommitFailed(n) == [type |-> "CommitFailed", reason |-> <<"Missing", n, "chunks">>]
SnapshotList(l) == [type |-> "SnapshotList", snapshots |-> l]
RollbackOk(id) == [type |-> "RollbackOk", snapshot_id |-> id]
RollbackFailed(reason) == [type |-> "RollbackFailed", reason |-> reason]
NoReply == [type |-> "none"]

\* The frames a client may send, and the sets of digests whose lookup may fail.
BadSets == {{}, {D1}}
HashLists == {<<D1, D2>>, <<D2, D1, D2>>}
AuthFrames == {Auth(TokenT), Auth(TokenBad)}
HaveFrames == {HaveChunks(hs) : hs \in HashLists}
\* The honest uploads (hash = BLAKE3(data)) and one whose data is not the
\* preimage of its hash: the server does not recompute the digest.
ChunkFrames == {ChunkData(Blake3(d), d) : d \in Payloads} \cup {ChunkData(D1, P2)}
CommitFrames == {CommitTree(HostA, TreeOne), CommitTree(HostA, TreeTwo),
                 CommitTree(HostB, TreeTwo)}
ListFrames == {ListSnapshots(h) : h \in Hostnames}
\* Without an id for either site; with the id of the first row for HostB
\* (its own row, or HostA's, or of no site it knows, as the commits went) and
\* with the id no row has for HostA.
RollbackFrames ==
    {Rollback(h, None) : h \in Hostnames}
        \cup {Rollback(HostB, Some(1)), Rollback(HostA, Some(MaxSnapshots + 1))}
OtherFrames == {TextFrame, CloseFrame, GarbageFrame}
Frames == AuthFrames \cup HaveFrames \cup ChunkFrames \cup CommitFrames
            \cup ListFrames \cup RollbackFrames \cup OtherFrames
\* First frames: the two Auth frames and one frame of every other kind (of a
\* first frame the handler reads the kind and, of an Auth, the token).
FirstFrames ==
    AuthFrames \cup OtherFrames
        \cup {HaveChunks(<<D1, D2>>), ChunkData(D1, P1), CommitTree(HostA, TreeOne),
              ListSnapshots(HostA), Rollback(HostA, None)}

----------------------------------------------------------------------------
(* State of a connection task and the history variables                    *)

ConnAt(st) ==
    [st |-> st, hostname |-> None, tree |-> None, site_id |-> 0,
     snapshot_id |-> None, target |-> 0]

SiteIds == 1..Cardinality(Hostnames)

\* The push client before push() is called.
ClientIdle ==
    [pc |-> "idle", dir |-> None, hostname |-> None, token |-> None, tree |-> None,
     chunks |-> <<>>, batch |-> 0, to_send |-> <<>>, result |-> None]

\* The id of the site's current snapshot, 0 when it has none.
CurrentOf(snaps, site_id) ==
    LET cur == {i \in 1..Len(snaps) : snaps[i].site_id = site_id /\ snaps[i].is_current}
    IN  IF cur = {} THEN 0 ELSE CHOOSE i \in cur : \A j \in cur : i <= j

\* prevCur after the snapshots table went from before to after.
NextPrevCur(prev, before, after) ==
    [s \in SiteIds |->
        IF CurrentOf(after, s) # 0 /\ CurrentOf(after, s) # CurrentOf(before, s)
        THEN CurrentOf(before, s) ELSE prev[s]]

\* The record of a step.  Of the frame it keeps the kind, the hostname of a
\* CommitTree, and all of a Rollback or an HTTP request.
Step(c, op, frame, reply, err) ==
    [c |-> c, op |-> op,
     frame |-> IF frame.type = "CommitTree"
               THEN [type |-> frame.type, hostname |-> frame.hostname]
               ELSE IF frame.type \in {"Rollback", "Get"} THEN frame
               ELSE [type |-> frame.type],
     reply |-> reply, err |-> err]

Init ==
    /\ chunks = {}
    /\ sites = <<>>
    /\ snapshots = <<>>
    /\ tokens = {}
    /\ cst = [c \in Conns |-> ConnAt("Start")]
    /\ client = ClientIdle
    /\ prevCur = [s \in SiteIds |-> 0]
    /\ last = Step(0, "init", NoReply, NoReply, FALSE)

----------------------------------------------------------------------------
(* Token administration (main.rs `token add`)                              *)

AddToken ==
    /\ TokenT \notin tokens
    /\ tokens' = tokens \cup {TokenT}
    /\ last' = Step(0, "add_token", NoReply, NoReply, FALSE)
    /\ UNCHANGED <<chunks, sites, snapshots, cst, client, prevCur>>

----------------------------------------------------------------------------
(* server/sync.rs: handle_sync                                             *)

\* The first frame.  Anything but a decodable binary Auth ends the task with
\* Err; so does a failing verify_token.  A bad token is answered AuthFailed.
RecvFirst(c, fr, f) ==
    /\ cst[c].st = "Start"
    /\ LET v == verify_token(tokens, fr.token, f) IN
       IF fr.type # "Auth" THEN
            /\ cst' = [cst EXCEPT ![c] = ConnAt("Closed")]
            /\ last' = Step(c, "first", fr, NoReply, TRUE)
       ELSE IF ~v.ok THEN
            /\ cst' = [cst EXCEPT ![c] = ConnAt("Closed")]
            /\ last' = Step(c, "first", fr, NoReply, TRUE)
       ELSE IF ~v.val THEN
            /\ cst' = [cst EXCEPT ![c] = ConnAt("Closed")]
            /\ last' = Step(c, "first", fr, AuthFailed, TRUE)
       ELSE /\ cst' = [cst EXCEPT ![c] = ConnAt("Ready")]
            /\ last' = Step(c, "first", fr, AuthOk, FALSE)
    /\ UNCHANGED <<chunks, sites, snapshots, tokens, prevCur>>

\* In the loop: Close breaks, an undecodable binary frame is an Err, other
\* non-binary frames are skipped, and an Auth frame matches `_ => {}`.
RecvOther(c, fr) ==
    /\ cst[c].st = "Ready"
    /\ fr.type \in {"Text", "Close", "Garbage", "Auth"}
    /\ cst' = [cst EXCEPT ![c] =
                  IF fr.type \in {"Close", "Garbage"} THEN ConnAt("Closed") ELSE @]
    /\ last' = Step(c, "other", fr, NoReply, fr.type = "Garbage")
    /\ UNCHANGED <<chunks, sites, snapshots, tokens, prevCur>>

\* Mutant: the reply lists the digests the server has.
RecvHaveChunksStored(c, fr, bad) ==
    /\ cst[c].st = "Ready"
    /\ fr.type = "HaveChunks"
    /\ LET have == has_chunks(chunks, fr.hashes, bad) IN
       IF ~have.ok THEN
            /\ cst' = [cst EXCEPT ![c] = ConnAt("Closed")]
            /\ last' = Step(c, "HaveChunks", fr, NoReply, TRUE)
       ELSE /\ cst' = cst
            /\ last' = Step(c, "HaveChunks", fr, NeedChunks(have.val), FALSE)
    /\ UNCHANGED <<chunks, sites, snapshots, tokens, prevCur>>

RecvHaveChunks(c, fr, bad) ==
    /\ cst[c].st = "Ready"
    /\ fr.type = "HaveChunks"
    /\ LET have == has_chunks(chunks, fr.hashes, bad)
           notHave(h) == h \notin Elems(have.val)
       IN  IF ~have.ok THEN
                /\ cst' = [cst EXCEPT ![c] = ConnAt("Closed")]
                /\ last' = Step(c, "HaveChunks", fr, NoReply, TRUE)
           ELSE /\ cst' = cst
                /\ last' = Step(c, "HaveChunks", fr,
                                NeedChunks(SelectSeq(fr.hashes, notHave)), FALSE)
    /\ UNCHANGED <<chunks, sites, snapshots, tokens, prevCur>>

RecvChunkData(c, fr, f) ==
    /\ cst[c].st = "Ready"
    /\ fr.type = "ChunkData"
    /\ LET r == store_chunk(chunks, fr.hash, fr.data, f) IN
       /\ chunks' = r.chunks
       /\ IF ~r.ret.ok THEN
                /\ cst' = [cst EXCEPT ![c] = ConnAt("Closed")]
                /\ last' = Step(c, "ChunkData", fr, NoReply, TRUE)
          ELSE  /\ cst' = cst
                /\ last' = Step(c, "ChunkData", fr, ChunkAck(fr.hash), FALSE)
    /\ UNCHANGED <<sites, snapshots, tokens, prevCur>>

\* Snapshot rows that exist or are about to be inserted.
Pending == Cardinality({c \in Conns : cst[c].st = "CommitSite"})

\* CommitTree, up to the end of get_or_create_site: verify_tree_chunks, then
\* the first critical section of create_snapshot.
RecvCommitTree(c, fr, bad, f) ==
    /\ cst[c].st = "Ready"
    /\ fr.type = "CommitTree"
    /\ Len(snapshots) + Pending < MaxSnapshots
    /\ LET v == verify_tree_chunks(fr.tree, chunks, bad)
           g == get_or_create_site(sites, fr.hostname, f)
       IN  IF ~v.ok THEN
                /\ sites' = sites
                /\ cst' = cst
                /\ last' = Step(c, "CommitTree", fr, CommitFailed(v.val), FALSE)
           ELSE /\ sites' = g.sites
                /\ IF ~g.ret.ok THEN
                        /\ cst' = [cst EXCEPT ![c] = ConnAt("Closed")]
                        /\ last' = Step(c, "CommitTree", fr, NoReply, TRUE)
                   ELSE /\ cst' = [cst EXCEPT ![c] =
                                [st |-> "CommitSite", hostname |-> Some(fr.hostname),
                                 tree |-> Some(fr.tree), site_id |-> g.ret.val,
                                 snapshot_id |-> None, target |-> 0]]
                        /\ last' = Step(c, "CommitTree", fr, NoReply, FALSE)
    /\ UNCHANGED <<chunks, snapshots, tokens, prevCur>>

\* The values of `serve --keep`: fewer than, as many as, and more than the
\* rows a site may have.
Keeps == {0, 1, 5}

\* Mutant: the rows of the site beyond the `keep` newest are deleted.
cleanup_old_snapshots_delete(ss, snaps, hostname, keep, f) ==
    LET l == list_snapshots(ss, snaps, hostname, f)
        dead == IF l.ok THEN {l.val[i].id : i \in (keep + 1)..Len(l.val)} ELSE {}
        kept == {i \in 1..Len(snaps) : i \notin dead}
    IN  IF ~l.ok THEN [snapshots |-> snaps, ret |-> Err]
        ELSE [snapshots |-> [k \in 1..Cardinality(kept) |->
                               snaps[CHOOSE i \in kept :
                                        Cardinality({j \in kept : j <= i}) = k]],
              ret |-> Ok(None)]

\* cleanup_old_snapshots: list_snapshots, then nothing, whether the site has
\* more than `keep` rows or not (the deletion is a TODO).
cleanup_old_snapshots(ss, snaps, hostname, keep, f) ==
    LET l == list_snapshots(ss, snaps, hostname, f)
    IN  IF ~l.ok THEN [snapshots |-> snaps, ret |-> Err]
        ELSE IF Len(l.val) > keep THEN [snapshots |-> snaps, ret |-> Ok(None)]
        ELSE [snapshots |-> snaps, ret |-> Ok(None)]

\* CommitTree, the rest: the second critical section of create_snapshot
\* (statements 1 and 2), cleanup_old_snapshots (statement 3), CommitOk.
CommitInsert(c, f) ==
    /\ cst[c].st = "CommitSite"
    /\ \E keep \in Keeps :
       LET fr == CommitTree(cst[c].hostname[1], cst[c].tree[1])
           r == create_snapshot(snapshots, cst[c].site_id, cst[c].tree[1], f)
           cl == IF r.ret.ok
                 THEN cleanup_old_snapshots(sites, r.snapshots, cst[c].hostname[1],
                                            keep, IF f = 3 THEN 1 ELSE 0)
                 ELSE [snapshots |-> r.snapshots, ret |-> Err]
       IN  /\ snapshots' = cl.snapshots
           /\ prevCur' = NextPrevCur(prevCur, snapshots, cl.snapshots)
           /\ IF ~r.ret.ok THEN
                    /\ cst' = [cst EXCEPT ![c] = ConnAt("Closed")]
                    /\ last' = Step(c, "create_snapshot", fr, NoReply, TRUE)
              ELSE IF ~cl.ret.ok THEN
                    /\ cst' = [cst EXCEPT ![c] = ConnAt("Closed")]
                    /\ last' = Step(c, "cleanup", fr, NoReply, TRUE)
              ELSE  /\ cst' = [cst EXCEPT ![c] = ConnAt("Ready")]
                    /\ last' = Step(c, "create_snapshot", fr, CommitOk(r.ret.val), FALSE)
    /\ UNCHANGED <<chunks, sites, tokens>>

RecvListSnapshots(c, fr, f) ==
    /\ cst[c].st = "Ready"
    /\ fr.type = "ListSnapshots"
    /\ LET l == list_snapshots(sites, snapshots, fr.hostname, f) IN
       IF ~l.ok THEN
            /\ cst' = [cst EXCEPT ![c] = ConnAt("Closed")]
            /\ last' = Step(c, "ListSnapshots", fr, NoReply, TRUE)
       ELSE /\ cst' = cst
            /\ last' = Step(c, "ListSnapshots", fr, SnapshotList(l.val), FALSE)
    /\ UNCHANGED <<chunks, sites, snapshots, tokens, prevCur>>

\* Mutant: the first entry of the listing (the newest snapshot) is taken.
rollback_target_first(listing, snapshot_id) ==
    IF snapshot_id # None THEN Some(snapshot_id[1])
    ELSE IF Len(listing) < 2 THEN None
    ELSE Some(listing[1].id)

\* The target of a Rollback, from the listing: Some(id), or None when no id
\* was given and the list has fewer than two entries.
rollback_target(listing, snapshot_id) ==
    IF snapshot_id # None THEN Some(snapshot_id[1])
    ELSE IF Len(listing) < 2 THEN None
    ELSE Some(listing[2].id)

\* Rollback, up to the choice of target_id: list_snapshots is the first
\* critical section.
RecvRollback(c, fr, f) ==
    /\ cst[c].st = "Ready"
    /\ fr.type = "Rollback"
    /\ LET l == list_snapshots(sites, snapshots, fr.hostname, f)
           t == rollback_target(l.val, fr.snapshot_id)
       IN  IF ~l.ok THEN
                /\ cst' = [cst EXCEPT ![c] = ConnAt("Closed")]
                /\ last' = Step(c, "Rollback", fr, NoReply, TRUE)
           ELSE IF t = None THEN
                /\ cst' = cst
                /\ last' = Step(c, "Rollback", fr,
                                RollbackFailed("No previous snapshot to rollback to"), FALSE)
           ELSE /\ cst' = [cst EXCEPT ![c] =
                            [st |-> "RollbackListed", hostname |-> Some(fr.hostname),
                             tree |-> None, site_id |-> 0,
                             snapshot_id |-> fr.snapshot_id, target |-> t[1]]]
                /\ last' = Step(c, "Rollback", fr, NoReply, FALSE)
    /\ UNCHANGED <<chunks, sites, snapshots, tokens, prevCur>>

\* Rollback, the rest: set_current_snapshot and the reply.
RollbackSet(c, f) ==
    /\ cst[c].st = "RollbackListed"
    /\ LET fr == Rollback(cst[c].hostname[1], cst[c].snapshot_id)
           r == set_current_snapshot(sites, snapshots, cst[c].hostname[1],
                                     cst[c].target, f)
       IN  /\ snapshots' = r.snapshots
           /\ prevCur' = NextPrevCur(prevCur, snapshots, r.snapshots)
           /\ IF ~r.ret.ok THEN
                    /\ cst' = [cst EXCEPT ![c] = ConnAt("Closed")]
                    /\ last' = Step(c, "set_current", fr, NoReply, TRUE)
              ELSE IF r.ret.val THEN
                    /\ cst' = [cst EXCEPT ![c] = ConnAt("Ready")]
                    /\ last' = Step(c, "set_current", fr, RollbackOk(cst[c].target), FALSE)
              ELSE  /\ cst' = [cst EXCEPT ![c] = ConnAt("Ready")]
                    /\ last' = Step(c, "set_current", fr,
                                    RollbackFailed("Snapshot not found"), FALSE)
    /\ UNCHANGED <<chunks, sites, tokens>>

----------------------------------------------------------------------------

FirstFrame ==
    \E c \in Conns, fr \in FirstFrames, f \in 0..1 :
        RecvFirst(c, fr, f) /\ UNCHANGED client
OtherFrame ==
    \E c \in Conns, fr \in Frames : RecvOther(c, fr) /\ UNCHANGED client
HaveChunksFrame ==
    \E c \in Conns, fr \in HaveFrames, bad \in BadSets :
        RecvHaveChunks(c, fr, bad) /\ UNCHANGED client
ChunkDataFrame ==
    \E c \in Conns, fr \in ChunkFrames, f \in 0..1 :
        RecvChunkData(c, fr, f) /\ UNCHANGED client
CommitTreeFrame ==
    \E c \in Conns, fr \in CommitFrames, bad \in BadSets, f \in 0..2 :
        RecvCommitTree(c, fr, bad, f) /\ UNCHANGED client
CommitInsertStep ==
    \E c \in Conns, f \in 0..3 : CommitInsert(c, f) /\ UNCHANGED client
ListSnapshotsFrame ==
    \E c \in Conns, fr \in ListFrames, f \in 0..1 :
        RecvListSnapshots(c, fr, f) /\ UNCHANGED client
RollbackFrame ==
    \E c \in Conns, fr \in RollbackFrames, f \in 0..1 :
        RecvRollback(c, fr, f) /\ UNCHANGED client
RollbackSetStep ==
    \E c \in Conns, f \in 0..4 : RollbackSet(c, f) /\ UNCHANGED client

Next ==
    \/ AddToken
    \/ FirstFrame
    \/ OtherFrame
    \/ HaveChunksFrame
    \/ ChunkDataFrame
    \/ CommitTreeFrame
    \/ CommitInsertStep
    \/ ListSnapshotsFrame
    \/ RollbackFrame
    \/ RollbackSetStep

Spec == Init /\ [][Next]_vars

----------------------------------------------------------------------------
(* client/push.rs: push, and a site served over HTTP                       *)

\* push() speaks on connection PushConn; after every frame it sends it
\* awaits the reply, so a send, the handler's critical section and the
\* receipt of the reply are one step.  The other connection is another
\* client's.
PushConn == 1
OtherConn == 2

\* The digests of one HaveChunks frame: 100 in the source, 2 here, so that a
\* file of a few chunks takes several batches.
BATCH_SIZE == 2

NumBatches(chs) == (Len(chs) + BATCH_SIZE - 1) \div BATCH_SIZE
Batch(chs, i) ==
    SubSeq(chs, (i - 1) * BATCH_SIZE + 1,
           IF i * BATCH_SIZE < Len(chs) THEN i * BATCH_SIZE ELSE Len(chs))

\* push() has returned.
Returned(cl, result) == [cl EXCEPT !.pc = "done", !.result = result]

\* Mutant: the chunks queued so far are sent before the next batch.
PcAfterHaveEager(cl) ==
    IF cl.to_send # <<>> THEN "send"
    ELSE IF cl.batch <= NumBatches(cl.chunks) THEN "have" ELSE "commit"

\* Where push() goes on after a batch, and after a chunk was sent.
PcAfterHave(cl) ==
    IF cl.batch <= NumBatches(cl.chunks) THEN "have"
    ELSE IF cl.to_send # <<>> THEN "send" ELSE "commit"
PcAfterSend(cl) == IF cl.to_send # <<>> THEN "send" ELSE "commit"

\* Lines 13-21: scan_directory(dir)?.next(), then build_tree of that entry.
PushScan(dir, hostname, token) ==
    /\ client.pc = "idle"
    /\ LET scanned == scan_directory(dir)
           built == build_tree(Head(scanned.val))
       IN  IF ~scanned.ok
           THEN /\ client' = Returned([client EXCEPT !.dir = Some(dir)], Err)
                /\ last' = Step(0, "push_scan", NoReply, NoReply, TRUE)
           ELSE /\ client' = [client EXCEPT !.pc = "auth", !.dir = Some(dir),
                                            !.hostname = Some(hostname),
                                            !.token = Some(token),
                                            !.tree = Some(built.tree),
                                            !.chunks = built.chunks, !.batch = 1]
                /\ last' = Step(0, "push_scan", NoReply, NoReply, FALSE)
    /\ UNCHANGED <<chunks, sites, snapshots, tokens, cst, prevCur>>

\* Lines 27-41: Auth, then AuthOk or an error.
PushAuth(f) ==
    /\ client.pc = "auth"
    /\ RecvFirst(PushConn, Auth(client.token[1]), f)
    /\ client' = IF last'.reply = AuthOk
                 THEN [client EXCEPT !.pc = PcAfterHave(client)]
                 ELSE Returned(client, Err)

\* Lines 47-69: one batch of hashes; the chunks the server needs are queued.
PushHaveChunks(bad) ==
    /\ client.pc = "have"
    /\ LET batch == Batch(client.chunks, client.batch)
           hashes == [i \in 1..Len(batch) |-> batch[i].hash]
           needed(ch) == ch.hash \in Elems(last'.reply.hashes)
       IN  /\ RecvHaveChunks(PushConn, HaveChunks(hashes), bad)
           /\ client' =
                IF last'.reply.type = "NeedChunks"
                THEN LET cl == [client EXCEPT !.batch = @ + 1,
                                              !.to_send = @ \o SelectSeq(batch, needed)]
                     IN  [cl EXCEPT !.pc = PcAfterHave(cl)]
                ELSE Returned(client, Err)

\* Lines 73-86: one queued chunk; any reply counts as the acknowledgement.
PushChunkData(f) ==
    /\ client.pc = "send"
    /\ LET chunk == Head(client.to_send)
           cl == [client EXCEPT !.to_send = Tail(@)]
       IN  /\ RecvChunkData(PushConn, ChunkData(chunk.hash, chunk.data), f)
           /\ client' = IF last'.reply = NoReply THEN Returned(client, Err)
                        ELSE [cl EXCEPT !.pc = PcAfterSend(cl)]

\* Lines 89-94: CommitTree, up to the server's get_or_create_site.
PushCommitTree(bad, f) ==
    /\ client.pc = "commit"
    /\ RecvCommitTree(PushConn, CommitTree(client.hostname[1], client.tree[1]), bad, f)
    /\ client' = IF cst'[PushConn].st = "CommitSite"
                 THEN [client EXCEPT !.pc = "committing"]
                 ELSE Returned(client, Err)

\* Lines 96-111: the reply to CommitTree: Ok(snapshot_id) on CommitOk.
PushCommitReply(f) ==
    /\ client.pc = "committing"
    /\ CommitInsert(PushConn, f)
    /\ client' = IF last'.reply.type = "CommitOk"
                 THEN Returned(client, Ok(last'.reply.snapshot_id))
                 ELSE Returned(client, Err)

\* push() returned and dropped its WebSocket.
PushClose ==
    /\ client.pc = "done"
    /\ RecvOther(PushConn, CloseFrame)
    /\ UNCHANGED client

\* An HTTP GET.
Get(host, path) == [type |-> "Get", host |-> host, path |-> path]
HttpGet(host, path, f, bad) ==
    /\ last' = Step(0, "http", Get(host, path),
                    handle_request(sites, snapshots, chunks, host, path, f, bad), FALSE)
    /\ UNCHANGED <<chunks, sites, snapshots, tokens, cst, client, prevCur>>

GetHosts == {HostA, HostA \o <<":", "8080">>, HostB}
GetPaths == {<<"/">>, <<"/", "index.html">>, <<"/", "css">>,
             <<"/", "css", "/", "style.css">>}

PushScanStep ==
    \E dir \in PushDirs, token \in {TokenT, TokenBad} : PushScan(dir, HostA, token)
PushAuthStep == \E f \in 0..1 : PushAuth(f)
PushHaveChunksStep == \E bad \in BadSets : PushHaveChunks(bad)
PushChunkDataStep == \E f \in 0..1 : PushChunkData(f)
PushCommitTreeStep == \E bad \in BadSets, f \in 0..2 : PushCommitTree(bad, f)
PushCommitReplyStep == \E f \in 0..3 : PushCommitReply(f)
HttpGetStep ==
    \E host \in GetHosts, path \in GetPaths, f \in 0..1, bad \in BadSets :
        (f = 0 \/ bad = {}) /\ HttpGet(host, path, f, bad)

\* The other client: it authenticates, uploads chunks and commits trees.
OtherFirst ==
    \E fr \in AuthFrames : RecvFirst(OtherConn, fr, 0) /\ UNCHANGED client
OtherChunkData ==
    \E fr \in ChunkFrames : RecvChunkData(OtherConn, fr, 0) /\ UNCHANGED client
OtherCommitTree ==
    \E fr \in CommitFrames, bad \in BadSets :
        RecvCommitTree(OtherConn, fr, bad, 0) /\ UNCHANGED client
OtherCommitInsert ==
    \E f \in {0, 2} : CommitInsert(OtherConn, f) /\ UNCHANGED client

NextPush ==
    \/ AddToken
    \/ PushScanStep
    \/ PushAuthStep
    \/ PushHaveChunksStep
    \/ PushChunkDataStep
    \/ PushCommitTreeStep
    \/ PushCommitReplyStep
    \/ PushClose
    \/ HttpGetStep
    \/ OtherFirst
    \/ OtherChunkData
    \/ OtherCommitTree
    \/ OtherCommitInsert

SpecPush == Init /\ [][NextPush]_vars

----------------------------------------------------------------------------
(* Two clients that commit to one hostname at the same time                *)

\* main.rs 121-137 spawns one task per connection.  Both clients commit to
\* HostA; the schedule is the race: the first INSERT of a snapshot runs when
\* the CommitTree handlers of both connections are past get_or_create_site.
RaceFrames == {fr \in CommitFrames : fr.hostname = HostA}
RaceCommitTree ==
    \E c \in Conns, fr \in RaceFrames, bad \in BadSets, f \in 0..2 :
        RecvCommitTree(c, fr, bad, f) /\ UNCHANGED client
RaceCommitInsert ==
    \E c \in Conns, f \in 0..3 :
        /\ Len(snapshots) = 0 => \A d \in Conns : cst[d].st = "CommitSite"
        /\ CommitInsert(c, f)
        /\ UNCHANGED client

NextRace ==
    \/ AddToken
    \/ FirstFrame
    \/ ChunkDataFrame
    \/ RaceCommitTree
    \/ RaceCommitInsert

SpecRace == Init /\ [][NextRace]_vars

----------------------------------------------------------------------------
(* Token revocation while connections are open                             *)

\* main.rs 162-165: `token revoke <token>`.
RevokeToken(token, f) ==
    /\ tokens' = revoke_token(tokens, token, f).tokens
    /\ last' = Step(0, "revoke_token", NoReply, NoReply,
                    ~revoke_token(tokens, token, f).ret.ok)
    /\ UNCHANGED <<chunks, sites, snapshots, cst, client, prevCur>>

RevokeTokenStep ==
    \E token \in {TokenT, TokenBad}, f \in 0..1 : RevokeToken(token, f)

\* The store after one `token add`.  add_token draws 32 random bytes, so a
\* revoked token is not issued again: no token is added in this
\* specification, and a token that is absent has been revoked or was never
\* issued.
InitTokens ==
    /\ chunks = {}
    /\ sites = <<>>
    /\ snapshots = <<>>
    /\ tokens = {TokenT}
    /\ cst = [c \in Conns |-> ConnAt("Start")]
    /\ client = ClientIdle
    /\ prevCur = [s \in SiteIds |-> 0]
    /\ last = Step(0, "add_token", NoReply, NoReply, FALSE)

NextTokens ==
    \/ RevokeTokenStep
    \/ FirstFrame
    \/ ChunkDataFrame
    \/ CommitTreeFrame
    \/ CommitInsertStep

SpecTokens == InitTokens /\ [][NextTokens]_vars

----------------------------------------------------------------------------
(* The chunk operations called on a Storage directly                       *)
(* (tests/storage_tests.rs)                                                *)

\* A call, and what it returned.
Call(op, args) == [type |-> op] @@ args
Returns(op, ret) == [type |-> op, ret |-> ret]

StoreHashLists == HashLists \cup {<<>>, <<D1, D1>>}

\* storage.store_chunk(&hash, &data); `before` is what get_chunk(hash) would
\* have returned when the call began.
StoreChunkCall(hash, data, f) ==
    LET r == store_chunk(chunks, hash, data, f) IN
    /\ chunks' = r.chunks
    /\ last' = [c |-> 0, op |-> "store_chunk",
                frame |-> Call("store_chunk", [hash |-> hash, data |-> data]),
                reply |-> Returns("store_chunk", r.ret)
                            @@ [before |-> get_chunk(chunks, hash, {}).val],
                err |-> ~r.ret.ok]
    /\ UNCHANGED <<sites, snapshots, tokens, cst, client, prevCur>>

\* storage.get_chunk(&hash)
GetChunkCall(hash, bad) ==
    /\ last' = [c |-> 0, op |-> "get_chunk",
                frame |-> Call("get_chunk", [hash |-> hash]),
                reply |-> Returns("get_chunk", get_chunk(chunks, hash, bad)),
                err |-> hash \in bad]
    /\ UNCHANGED <<chunks, sites, snapshots, tokens, cst, client, prevCur>>

\* storage.has_chunks(&hashes), no store_chunk running during the call.
HasChunksCall(hashes, bad) ==
    LET r == has_chunks(chunks, hashes, bad) IN
    /\ last' = [c |-> 0, op |-> "has_chunks",
                frame |-> Call("has_chunks", [hashes |-> hashes]),
                reply |-> Returns("has_chunks", r),
                err |-> ~r.ok]
    /\ UNCHANGED <<chunks, sites, snapshots, tokens, cst, client, prevCur>>

StoreChunkStep ==
    \E hash \in Digests, data \in Payloads, f \in 0..1 : StoreChunkCall(hash, data, f)
GetChunkStep == \E hash \in Digests, bad \in BadSets : GetChunkCall(hash, bad)
HasChunksStep ==
    \E hashes \in StoreHashLists, bad \in BadSets : HasChunksCall(hashes, bad)

NextStore ==
    \/ StoreChunkStep
    \/ GetChunkStep
    \/ HasChunksStep

SpecStore == Init /\ [][NextStore]_vars

----------------------------------------------------------------------------
(* One client that pushes again and again                                  *)

\* A file that FastCDC cuts into two equal chunks.
RepeatFile == FsFile(<<"y", "y">>)
AgainDirs == {SiteDir, PlainFile, RepeatFile}

PushScanAgain == \E dir \in AgainDirs : PushScan(dir, HostA, TokenT)

\* push() has returned and its connection is gone; the next call of push()
\* connects anew (push.rs 25), and the server accepts the connection.
PushAgain ==
    /\ client.pc = "done"
    /\ cst[PushConn].st = "Closed"
    /\ client' = ClientIdle
    /\ cst' = [cst EXCEPT ![PushConn] = ConnAt("Start")]
    /\ last' = Step(0, "push_again", NoReply, NoReply, FALSE)
    /\ UNCHANGED <<chunks, sites, snapshots, tokens, prevCur>>

NextPushAgain ==
    \/ AddToken
    \/ PushScanAgain
    \/ PushAuthStep
    \/ PushHaveChunksStep
    \/ PushChunkDataStep
    \/ PushCommitTreeStep
    \/ PushCommitReplyStep
    \/ PushClose
    \/ PushAgain

SpecPushAgain == Init /\ [][NextPushAgain]_vars

----------------------------------------------------------------------------
(* The HTTP reader over a data directory as Storage::open finds it         *)

\* Trees of a current snapshot: a site with a sub-directory, a snapshot
\* pushed from one regular file, and a site whose index.html is a directory.
TreeFile == FileNode("", <<D2, D1>>)
TreeIdx ==
    DirNode("", <<DirNode("index.html", <<FileNode("index.html", <<D1>>)>>),
                  DirNode("docs", <<FileNode("index.html", <<D1, D2>>)>>)>>)
HttpTrees == {TreeTwo, TreeFile, TreeIdx}

\* Request paths: "/", a file, a directory with and without the trailing
\* slash, an empty segment, "..", a path through a file, a missing name.
HttpPaths ==
    {<<"/">>, <<"/", "index.html">>, <<"/", "css">>, <<"/", "css", "/">>,
     <<"/", "css", "/", "/", "style.css">>,
     <<"/", "css", "/", "..", "/", "index.html">>,
     <<"/", "index.html", "/", "index.html">>,
     <<"/", "docs">>, <<"/", "missing.txt">>}

\* index.db holds the site HostA with one current snapshot; the shard files
\* are files of their own beside it and hold all, some or none of the
\* chunks (open creates a shard that is not there, storage.rs 100-120).
HonestRows == {[hash |-> Blake3(d), data |-> d] : d \in Payloads}
InitHttp ==
    /\ chunks \in SUBSET HonestRows
    /\ sites = <<HostA>>
    /\ \E tree \in HttpTrees :
         snapshots = <<[site_id |-> 1, tree_data |-> Serialize(tree),
                        is_current |-> TRUE]>>
    /\ tokens = {}
    /\ cst = [c \in Conns |-> ConnAt("Start")]
    /\ client = ClientIdle
    /\ prevCur = [s \in SiteIds |-> 0]
    /\ last = Step(0, "init", NoReply, NoReply, FALSE)

HttpGetAny ==
    \E host \in GetHosts, path \in HttpPaths, f \in 0..1, bad \in BadSets :
        HttpGet(host, path, f, bad)

\* find_node(&snapshot.tree, path), as handle_request and the tests call it.
FindNodeCall(path) ==
    /\ \E i \in 1..Len(snapshots) :
         LET tree == Deserialize(snapshots[i].tree_data) IN
         last' = [c |-> 0, op |-> "find_node",
                  frame |-> Call("find_node", [tree |-> tree, path |-> path]),
                  reply |-> Returns("find_node", find_node(tree, path)),
                  err |-> FALSE]
    /\ UNCHANGED <<chunks, sites, snapshots, tokens, cst, client, prevCur>>

FindNodeStep == \E path \in HttpPaths : FindNodeCall(path)

NextHttp ==
    \/ HttpGetAny
    \/ FindNodeStep

SpecHttp == InitHttp /\ [][NextHttp]_vars

----------------------------------------------------------------------------
(* The library functions called directly (tests/chunker_tests.rs,          *)
(* scanner_tests.rs, merkle_builder_tests.rs, archive_tests.rs; main.rs    *)
(* `archive` and `extract`)                                                *)

\* File contents: up to MaxBlocks whole blocks, then nothing or one partial
\* block "p" (fewer than 16 KiB).
MaxBlocks == 5
ChunkInputs ==
    {w \o t : w \in UNION {[1..k -> {"x", "y"}] : k \in 0..MaxBlocks},
              t \in {<<>>, <<"p">>}}

\* The orders in which read_dir may list the entries of a directory.
ReadDirOrders(dir) ==
    IF dir.kind # "dir" THEN {dir}
    ELSE {FsDir(order) : order \in {o \in [1..Len(dir.children) -> Elems(dir.children)] :
                                       Elems(o) = Elems(dir.children)}}

\* A directory with an empty sub-directory and a nested one.
NestedDir ==
    FsDir(<<DirEntry("style.css", FsFile(<<"x">>)),
            DirEntry("css", FsDir(<<>>)),
            DirEntry("index.html",
                     FsDir(<<DirEntry("index.html", FsFile(<<"y", "y">>))>>))>>)
ScanDirs == ReadDirOrders(SiteDir) \cup ReadDirOrders(NestedDir) \cup {PlainFile, FsAbsent}

\* chunk_data(data).collect()
ChunkDataCall(data) ==
    /\ last' = [c |-> 0, op |-> "chunk_data",
                frame |-> Call("chunk_data", [data |-> data]),
                reply |-> Returns("chunk_data", chunk_data(data)),
                err |-> FALSE]
    /\ UNCHANGED <<chunks, sites, snapshots, tokens, cst, client, prevCur>>

\* scan_directory(path): every entry it yields, or the error.
ScanDirectoryCall(path) ==
    LET r == scan_directory(path) IN
    /\ last' = [c |-> 0, op |-> "scan_directory",
                frame |-> Call("scan_directory", [path |-> path]),
                reply |-> Returns("scan_directory", r),
                err |-> ~r.ok]
    /\ UNCHANGED <<chunks, sites, snapshots, tokens, cst, client, prevCur>>

\* build_tree(scan_directory(path).next()): the root hash and the digests of
\* the chunks.
BuildOf(path) ==
    LET b == build_tree(Head(scan_directory(path).val))
    IN  [hash |-> NodeHash(b.tree),
         digests |-> [i \in 1..Len(b.chunks) |-> b.chunks[i].hash]]

\* The tree is built from two scans of one directory content
\* (test_build_tree_deterministic); read_dir may list the entries in
\* another order the second time.
BuildTreeTwice(first, second) ==
    /\ scan_directory(first).ok
    /\ last' = [c |-> 0, op |-> "build_tree",
                frame |-> Call("build_tree", [first |-> first, second |-> second]),
                reply |-> Returns("build_tree", <<BuildOf(first), BuildOf(second)>>),
                err |-> FALSE]
    /\ UNCHANGED <<chunks, sites, snapshots, tokens, cst, client, prevCur>>

\* webpub archive dir out.webpub; webpub extract out.webpub output: the
\* output directory, or the error of one of the two commands.
ArchiveExtract(dir) ==
    LET scan == scan_directory(dir)
        b == build_tree(Head(scan.val))
        r == IF scan.ok THEN read_archive(write_archive(b.tree, b.chunks)) ELSE Err
    IN
    /\ last' = [c |-> 0, op |-> "archive",
                frame |-> Call("archive", [dir |-> dir]),
                reply |-> Returns("archive", r),
                err |-> ~r.ok]
    /\ UNCHANGED <<chunks, sites, snapshots, tokens, cst, client, prevCur>>

ChunkDataStep == \E data \in ChunkInputs : ChunkDataCall(data)
ScanDirectoryStep == \E path \in ScanDirs : ScanDirectoryCall(path)
BuildTreeStep ==
    \E first \in ScanDirs : \E second \in ReadDirOrders(first) :
        BuildTreeTwice(first, second)
ArchiveExtractStep == \E dir \in ScanDirs : ArchiveExtract(dir)

NextLib ==
    \/ ChunkDataStep
    \/ ScanDirectoryStep
    \/ BuildTreeStep
    \/ ArchiveExtractStep

SpecLib == Init /\ [][NextLib]_vars

----------------------------------------------------------------------------
(* merkle.rs: the hash field of the nodes build_tree returns, with the     *)
(* permissions of the entries                                              *)

\* ScannedEntry::File and ScannedEntry::Directory with their permissions.
EntryFile(name, permissions, data) ==
    [kind |-> "File", name |-> name, permissions |-> permissions, data |-> data,
     children |-> <<>>]
EntryDirectory(name, permissions, children) ==
    [kind |-> "Directory", name |-> name, permissions |-> permissions, data |-> <<>>,
     children |-> children]

\* The bytes given to the hasher, update by update: for a File the hash of
\* every chunk; for a Directory the name, the permissions and the hash of
\* every child.  Neither the kind of the node nor its own name and
\* permissions are among them.
RECURSIVE HashOf(_)
HashInput(entry) ==
    IF entry.kind = "File"
    THEN LET cs == chunk_data(entry.data) IN [i \in 1..Len(cs) |-> cs[i].hash]
    ELSE Flatten([i \in 1..Len(entry.children) |->
                    <<entry.children[i].name, entry.children[i].permissions,
                      HashOf(entry.children[i])>>])
HashOf(entry) == Blake3(HashInput(entry))

\* Entries of a directory: empty and non-empty files, an empty directory
\* and one with a file, under two names and two permissions.
MerkleNames == {"a", "b"}
MerklePerms == {420, 493}
MerkleData == {<<>>, <<"x">>, <<"y", "x">>}
MerkleLeaves ==
    {EntryFile(n, p, d) : n \in MerkleNames, p \in MerklePerms, d \in {<<>>, <<"x">>}}
        \cup {EntryDirectory(n, p, <<>>) : n \in MerkleNames, p \in MerklePerms}
\* The entries build_tree is called with: a file, or a directory of at most
\* two entries, one of which may be a directory with an entry of its own.
MerkleRoots ==
    {EntryFile("", 420, d) : d \in MerkleData}
        \cup {EntryDirectory("", 493, <<>>)}
        \cup {EntryDirectory("", 493, <<k>>) : k \in MerkleLeaves}
        \cup {EntryDirectory("", 493, <<EntryDirectory("a", 493, <<k>>)>>) :
                 k \in MerkleLeaves}
        \cup {EntryDirectory("", 493, <<EntryFile("a", 420, <<"x">>), k>>) :
                 k \in {l \in MerkleLeaves : l.name = "b"}}

\* build_tree of two entries: the root hashes.
BuildTreePair(first, second) ==
    /\ last' = [c |-> 0, op |-> "root_hash",
                frame |-> Call("root_hash", [first |-> first, second |-> second]),
                reply |-> Returns("root_hash", <<HashOf(first), HashOf(second)>>),
                err |-> FALSE]
    /\ UNCHANGED <<chunks, sites, snapshots, tokens, cst, client, prevCur>>

BuildTreePairStep ==
    \E first \in MerkleRoots, second \in MerkleRoots : BuildTreePair(first, second)

NextMerkle == BuildTreePairStep

SpecMerkle == Init /\ [][NextMerkle]_vars

----------------------------------------------------------------------------
(* A server on which no storage operation fails: two sync connections that *)
(* upload, commit and roll back, and HTTP requests in between              *)

ServeFirst ==
    \E c \in Conns, fr \in AuthFrames : RecvFirst(c, fr, 0) /\ UNCHANGED client
ServeChunkData ==
    \E c \in Conns, d \in Payloads :
        RecvChunkData(c, ChunkData(Blake3(d), d), 0) /\ UNCHANGED client
ServeCommitTree ==
    \E c \in Conns, fr \in CommitFrames :
        RecvCommitTree(c, fr, {}, 0) /\ UNCHANGED client
ServeCommitInsert ==
    \E c \in Conns : CommitInsert(c, 0) /\ UNCHANGED client
ServeRollback ==
    \E c \in Conns, fr \in RollbackFrames :
        RecvRollback(c, fr, 0) /\ UNCHANGED client
ServeRollbackSet ==
    \E c \in Conns : RollbackSet(c, 0) /\ UNCHANGED client
ServeGet ==
    \E host \in GetHosts, path \in GetPaths : HttpGet(host, path, 0, {})

NextServe ==
    \/ AddToken
    \/ ServeFirst
    \/ ServeChunkData
    \/ ServeCommitTree
    \/ ServeCommitInsert
    \/ ServeRollback
    \/ ServeRollbackSet
    \/ ServeGet

SpecServe == Init /\ [][NextServe]_vars

----------------------------------------------------------------------------
(* One push of a file whose chunks do not fit into one HaveChunks batch    *)

\* A file of 2 * BATCH_SIZE + 1 chunks: three batches, the last one short.
BigFile == FsFile(<<"y", "x", "y", "y", "x", "x", "y", "x">>)
BigDirs == {BigFile, PlainFile, RepeatFile, SiteDir}

PushScanBig ==
    \E dir \in BigDirs, hostname \in Hostnames, token \in {TokenT, TokenBad} :
        PushScan(dir, hostname, token)

NextPushBig ==
    \/ AddToken
    \/ PushScanBig
    \/ PushAuthStep
    \/ PushHaveChunksStep
    \/ PushChunkDataStep
    \/ PushCommitTreeStep
    \/ PushCommitReplyStep
    \/ PushClose

SpecPushBig == Init /\ [][NextPushBig]_vars

----------------------------------------------------------------------------
(* Connections that authenticate, ask for and upload chunks, and send      *)
(* frames of the other kinds; statements may fail                          *)

NextChunks ==
    \/ AddToken
    \/ FirstFrame
    \/ OtherFrame
    \/ HaveChunksFrame
    \/ ChunkDataFrame

SpecChunks == Init /\ [][NextChunks]_vars

----------------------------------------------------------------------------
(* A push with a valid token to a server on which nothing fails, while     *)
(* another connection uploads, commits and rolls back                      *)

\* The file of three batches and the directory, whose tree has no chunk.
LivePushScan ==
    \E dir \in {BigFile, SiteDir} : PushScan(dir, HostA, TokenT)
LivePushAuth == PushAuth(0)
LivePushHaveChunks == PushHaveChunks({})
LivePushChunkData == PushChunkData(0)
LivePushCommitTree == PushCommitTree({}, 0)
LivePushCommitReply == PushCommitReply(0)

\* The other connection uploads the chunk of the tree it commits, which is
\* also the last chunk of the file being pushed.
LiveOtherChunkData ==
    RecvChunkData(OtherConn, ChunkData(Blake3(P1), P1), 0) /\ UNCHANGED client

\* The other connection commits when its row leaves room in the bounded
\* table for the row of the push.
LiveOtherCommitTree ==
    /\ client.pc \in {"committing", "done"} \/ Len(snapshots) + Pending + 1 < MaxSnapshots
    /\ \E fr \in CommitFrames : RecvCommitTree(OtherConn, fr, {}, 0) /\ UNCHANGED client
LiveOtherCommitInsert == CommitInsert(OtherConn, 0) /\ UNCHANGED client
LiveOtherRollback ==
    \E fr \in RollbackFrames : RecvRollback(OtherConn, fr, 0) /\ UNCHANGED client
LiveOtherRollbackSet == RollbackSet(OtherConn, 0) /\ UNCHANGED client

\* The steps of push() from Auth to the reply to CommitTree.
PushProgress ==
    \/ LivePushAuth
    \/ LivePushHaveChunks
    \/ LivePushChunkData
    \/ LivePushCommitTree
    \/ LivePushCommitReply

NextPushLive ==
    \/ LivePushScan
    \/ LivePushAuth
    \/ LivePushHaveChunks
    \/ LivePushChunkData
    \/ LivePushCommitTree
    \/ LivePushCommitReply
    \/ PushClose
    \/ OtherFirst
    \/ LiveOtherChunkData
    \/ LiveOtherCommitTree
    \/ LiveOtherCommitInsert
    \/ LiveOtherRollback
    \/ LiveOtherRollbackSet

\* push() is one sequential async function that main awaits, and the server
\* runs one spawned task per connection (main.rs 121-137) whose critical
\* sections each end by releasing the mutex: a step of the push that stays
\* possible is taken.
SpecPushLive == InitTokens /\ [][NextPushLive]_vars /\ WF_vars(PushProgress)

----------------------------------------------------------------------------
(* Connections that commit to either site and list snapshots; statements   *)
(* may fail                                                                *)

NextCommits ==
    \/ AddToken
    \/ FirstFrame
    \/ ChunkDataFrame
    \/ CommitTreeFrame
    \/ CommitInsertStep
    \/ ListSnapshotsFrame

SpecCommits == Init /\ [][NextCommits]_vars

----------------------------------------------------------------------------
(* storage.rs at the level of its two mutexes: the tasks of the server     *)
(* (sync connections, HTTP requests) call storage operations, each of      *)
(* which is a sequence of critical sections                                *)

IndexOps == {"add_token", "verify_token", "revoke_token", "list_tokens",
             "get_or_create_site", "get_current_snapshot", "list_snapshots",
             "set_current_snapshot"}
ChunkOps == {"store_chunk", "get_chunk"}
StorageOps == IndexOps \cup ChunkOps \cup {"create_snapshot", "has_chunks"}

\* The mutexes an operation locks, in program order.  A chunk operation
\* locks chunk_dbs in get_chunk_db and again in its own body; has_chunks does
\* so for every hash (n of them); create_snapshot locks index in
\* get_or_create_site and again for its two statements; every other
\* operation locks index once.
Sections(op, n) ==
    IF op \in ChunkOps THEN <<"chunk_dbs", "chunk_dbs">>
    ELSE IF op = "has_chunks" THEN [i \in 1..(2 * n) |-> "chunk_dbs"]
    ELSE IF op = "create_snapshot" THEN <<"index", "index">>
    ELSE <<"index">>

\* A task: the operation it runs, the sections still to run, whether it is
\* before the lock() of the first of them or inside it, and the guards it
\* holds.
TaskIdle == [st |-> "idle", op |-> "none", todo |-> <<>>, held |-> {}]

\* Mutant: the guard outlives the section (get_chunk_db returning with the
\* lock held).
drop_guard_leaked(held, m) == held

\* The MutexGuard is a local of the function (or of the loop body of
\* has_chunks): it is dropped when the section ends, by return or by `?`.
drop_guard(held, m) == held \ {m}

InitLocks ==
    /\ chunks = {}
    /\ sites = <<>>
    /\ snapshots = <<>>
    /\ tokens = {}
    /\ cst = [c \in Conns |-> TaskIdle]
    /\ client = ClientIdle
    /\ prevCur = [s \in SiteIds |-> 0]
    /\ last = Step(0, "init", NoReply, NoReply, FALSE)

\* A task calls a storage operation.
StorageCall(c, op, n) ==
    /\ cst[c].st = "idle"
    /\ cst' = [cst EXCEPT ![c] = [st |-> "lock", op |-> op,
                                  todo |-> Sections(op, n), held |-> {}]]
    /\ last' = Step(c, op, NoReply, NoReply, FALSE)
    /\ UNCHANGED <<chunks, sites, snapshots, tokens, client, prevCur>>

\* mutex.lock().unwrap() returns: no task holds the mutex, the caller
\* included (std::sync::Mutex is not re-entrant).
MutexLock(c) ==
    /\ cst[c].st = "lock"
    /\ \A d \in Conns : Head(cst[c].todo) \notin cst[d].held
    /\ cst' = [cst EXCEPT ![c].st = "held", ![c].held = @ \cup {Head(cst[c].todo)}]
    /\ last' = Step(c, "lock", NoReply, NoReply, FALSE)
    /\ UNCHANGED <<chunks, sites, snapshots, tokens, client, prevCur>>

\* The section ends: its statements ran (f = 0) or one of them failed and
\* the operation returns the error (f = 1).
SectionEnd(c, f) ==
    /\ cst[c].st = "held"
    /\ LET held == drop_guard(cst[c].held, Head(cst[c].todo))
           rest == IF f = 1 THEN <<>> ELSE Tail(cst[c].todo)
       IN  cst' = [cst EXCEPT ![c] =
                     IF rest = <<>> /\ held = {} THEN TaskIdle
                     ELSE IF rest = <<>>
                     THEN [st |-> "returned", op |-> @.op, todo |-> rest, held |-> held]
                     ELSE [st |-> "lock", op |-> @.op, todo |-> rest, held |-> held]]
    /\ last' = Step(c, "unlock", NoReply, NoReply, f = 1)
    /\ UNCHANGED <<chunks, sites, snapshots, tokens, client, prevCur>>

StorageCallStep ==
    \E c \in Conns, op \in StorageOps, n \in 1..2 :
        (op = "has_chunks" \/ n = 1) /\ StorageCall(c, op, n)
MutexLockStep == \E c \in Conns : MutexLock(c)
SectionEndStep == \E c \in Conns, f \in 0..1 : SectionEnd(c, f)

NextLocks ==
    \/ StorageCallStep
    \/ MutexLockStep
    \/ SectionEndStep

\* A task inside a section runs on (the statements are finite SQLite calls),
\* and a task blocked in lock() gets the mutex when it is free again and
\* again: the tasks are scheduled by the tokio runtime on OS threads, and the
\* critical sections hold no guard across an await.
SpecLocks ==
    /\ InitLocks
    /\ [][NextLocks]_vars
    /\ \A c \in Conns : WF_vars(\E f \in 0..1 : SectionEnd(c, f)) /\ SF_vars(MutexLock(c))

----------------------------------------------------------------------------
(* Vocabulary of the properties                                            *)

\* The ids of the snapshot rows of the site of hostname.
SiteRows(ss, snaps, hostname) ==
    {i \in 1..Len(snaps) :
        SiteId(ss, hostname) # None /\ snaps[i].site_id = SiteId(ss, hostname)[1]}

MaxOf(S) == CHOOSE i \in S : \A j \in S : j <= i

\* The second-highest snapshot id of the site.
SecondNewest(ss, snaps, hostname) ==
    LET R == SiteRows(ss, snaps, hostname) IN MaxOf(R \ {MaxOf(R)})

\* Every chunk reference of a tree, in depth-first order.
RECURSIVE ChunkRefs(_)
ChunkRefs(node) ==
    IF node.kind = "File" THEN node.chunks
    ELSE Flatten([i \in 1..Len(node.children) |-> ChunkRefs(node.children[i])])

Stored(rows) == {r.hash : r \in rows}

\* The is_current flags of the rows, by row id.
Flags(snaps) == [i \in 1..Len(snaps) |-> snaps[i].is_current]

\* What a reader sees as the current snapshot of each hostname.
CurrentView(ss, snaps) ==
    [h \in Hostnames |-> get_current_snapshot(ss, snaps, h, 0).val]

\* The regular files under a path, each with its path (the names from the
\* root down) and contents, and the sub-directories under it.
RECURSIVE FsFiles(_, _)
FsFiles(e, prefix) ==
    IF e.kind = "file" THEN {[parts |-> prefix, data |-> e.data]}
    ELSE IF e.kind = "dir"
    THEN UNION {FsFiles(e.children[i].entry, Append(prefix, e.children[i].name)) :
                    i \in 1..Len(e.children)}
    ELSE {}
RECURSIVE FsSubdirs(_, _)
FsSubdirs(e, prefix) ==
    IF e.kind = "dir"
    THEN UNION {{Append(prefix, e.children[i].name)}
                    \cup FsSubdirs(e.children[i].entry, Append(prefix, e.children[i].name)) :
                i \in {j \in 1..Len(e.children) : e.children[j].entry.kind = "dir"}}
    ELSE {}

\* The request path of a file: "/" before every name.
UrlPath(parts) == Flatten([i \in 1..Len(parts) |-> <<"/", parts[i]>>])

----------------------------------------------------------------------------
(* C1: for every site, in every reachable state, at most one snapshot row  *)
(* of the site has is_current = 1.                                         *)
C1_AtMostOneCurrent ==
    \A s \in SiteIds :
        Cardinality({i \in 1..Len(snapshots) :
                        snapshots[i].site_id = s /\ snapshots[i].is_current}) <= 1

\* Two snapshots of one site, the older one made current by a rollback.
C1_Witness ==
    /\ Len(snapshots) >= 2
    /\ snapshots[1].site_id = snapshots[2].site_id
    /\ snapshots[1].is_current
    /\ last.op = "set_current"
    /\ last.reply = RollbackOk(1)

(* C2: a CommitTree whose tree references a chunk that is not stored is    *)
(* answered CommitFailed "Missing N chunks", N the number of chunk         *)
(* references the lookup found no chunk for (each reference counted, a     *)
(* lookup that fails counted too); no snapshot row and no site row is      *)
(* created, every site's current snapshot is as before, and the            *)
(* connection stays Ready.                                                 *)
C2_CommitMissingChunks ==
    [][last'.op = "CommitTree" =>
       \A fr \in CommitFrames :
        LET c == last'.c
            refs == ChunkRefs(fr.tree)
            absent == {i \in 1..Len(refs) : refs[i] \notin Stored(chunks)}
        IN  (last'.frame.hostname = fr.hostname /\ absent # {}) =>
            \A bad \in BadSets, f \in 0..2 :
                RecvCommitTree(c, fr, bad, f)
                => /\ last'.reply =
                        CommitFailed(Cardinality(absent \cup
                                        {i \in 1..Len(refs) : refs[i] \in bad}))
                   /\ snapshots' = snapshots
                   /\ sites' = sites
                   /\ CurrentView(sites', snapshots') = CurrentView(sites, snapshots)
                   /\ cst'[c].st = "Ready"]_vars

\* A commit to HostB refused for its missing chunk D2 while HostA has a
\* current snapshot; HostB has no site row.
C2_Witness ==
    /\ last.op = "CommitTree"
    /\ last.frame.hostname = HostB
    /\ last.reply = CommitFailed(1)
    /\ D2 \notin Stored(chunks)
    /\ cst[last.c].st = "Ready"
    /\ CurrentView(sites, snapshots)[HostA] # None
    /\ SiteId(sites, HostB) = None

(* C3 (as claimed): after create_snapshot returned id (CommitOk{id}), the  *)
(* new row is the current snapshot of the site, and get_current_snapshot   *)
(* keeps returning the same (id, tree) for a hostname until a successful   *)
(* create_snapshot or set_current_snapshot for that hostname.              *)
SuccessfulWrite(h) ==
    /\ last'.op \in {"create_snapshot", "cleanup", "set_current"}
    /\ last'.frame.hostname = h
    /\ \/ last'.op = "cleanup"
       \/ last'.reply.type \in {"CommitOk", "RollbackOk"}
C3_CurrentUntilNextWrite ==
    [][/\ last'.reply.type = "CommitOk" =>
          \A c \in {last'.c} :
            CommitInsert(c, 0)
            => CurrentView(sites', snapshots')[cst[c].hostname[1]]
                 = Some([id |-> last'.reply.snapshot_id, tree |-> cst[c].tree[1]])
       /\ \A h \in Hostnames :
            (CurrentView(sites, snapshots)[h] # None /\ ~SuccessfulWrite(h))
            => CurrentView(sites', snapshots')[h] = CurrentView(sites, snapshots)[h]
      ]_vars

(* C4 (as claimed): a create_snapshot that fails at any of its steps       *)
(* leaves the is_current flags of the existing rows as they were.          *)
C4_FailedCreateKeepsFlags ==
    [][(last'.op = "create_snapshot" /\ last'.err) =>
       \A f \in 0..2 :
        CommitInsert(last'.c, f) => Flags(snapshots') = Flags(snapshots)]_vars

(* C5: before a connection has presented, as its first frame, an Auth      *)
(* frame whose token verify_token accepted, nothing is executed for it: no *)
(* chunk stored, no site or snapshot row written, no flag changed, no      *)
(* NeedChunks or SnapshotList sent.  A first frame that is not Auth closes *)
(* the connection without a reply.                                         *)
C5_NothingBeforeAuth ==
    [][/\ last'.op = "first" =>
          \A fr \in FirstFrames, f \in 0..1 :
            LET c == last'.c IN
            (last'.frame.type = fr.type /\ RecvFirst(c, fr, f))
            => /\ UNCHANGED <<chunks, sites, snapshots>>
               /\ last'.reply.type \in {"AuthOk", "AuthFailed", "none"}
               /\ (cst'[c].st = "Ready")
                    <=> (fr.type = "Auth" /\ fr.token \in tokens /\ f = 0)
               /\ cst'[c].st \in {"Ready", "Closed"}
               /\ fr.type # "Auth" => (cst'[c].st = "Closed" /\ last'.reply = NoReply)
       /\ (\/ chunks' # chunks
           \/ sites' # sites
           \/ snapshots' # snapshots
           \/ last'.reply.type \in
                {"NeedChunks", "ChunkAck", "CommitOk", "CommitFailed", "SnapshotList",
                 "RollbackOk", "RollbackFailed"})
          => /\ last'.c \in Conns
             /\ cst[last'.c].st \in {"Ready", "CommitSite", "RollbackListed"}
      ]_vars

\* One connection was closed on a non-Auth first frame, the other one
\* authenticated and has stored a chunk.
C5_Witness ==
    /\ \E c \in Conns : cst[c].st = "Closed"
    /\ last.op = "first"
    /\ last.frame.type = "HaveChunks"
    /\ last.reply = NoReply
    /\ chunks # {}

(* C6 (as claimed): a stored chunk is immutable: once a row (d, b) is in   *)
(* the chunk store, get_chunk(d) returns b ever after.                     *)
C6_ChunkImmutable ==
    [][\A r \in chunks :
        get_chunk(chunks', r.hash, {}) = Ok(Some(r.data))]_vars

(* C7 (as claimed): when push(dir, server, hostname, token) has returned   *)
(* Ok(id) for a directory dir, the tree of snapshot id has a File node for *)
(* every regular file of dir and a Directory node for every sub-directory, *)
(* and a GET of each file's path with Host = hostname is answered 200 with *)
(* the file's bytes.  Stated for the state in which push has just          *)
(* returned and every stored chunk is the preimage of its hash.            *)
C7_PushedSiteServed ==
    (/\ client.pc = "done"
     /\ client.result.ok
     /\ client.dir[1].kind = "dir"
     /\ last.op = "create_snapshot"
     /\ last.c = PushConn
     /\ \A r \in chunks : r.hash = Blake3(r.data))
    => LET tree == Deserialize(snapshots[client.result.val].tree_data)
           dir == client.dir[1]
       IN  /\ \A file \in FsFiles(dir, <<>>) :
                /\ find_node_recursive(tree, file.parts) # None
                /\ find_node_recursive(tree, file.parts)[1].kind = "File"
                /\ handle_request(sites, snapshots, chunks, client.hostname[1],
                                  UrlPath(file.parts), 0, {})
                     = Response(200, file.data)
           /\ \A d \in FsSubdirs(dir, <<>>) :
                /\ find_node_recursive(tree, d) # None
                /\ find_node_recursive(tree, d)[1].kind = "Directory"

(* C8: a Rollback without a snapshot id, for a site that has at least two  *)
(* snapshots when the handler lists them, targets the snapshot with the    *)
(* second-highest id of the site; absent a storage error that snapshot is  *)
(* made current, get_current_snapshot returns it and the reply is          *)
(* RollbackOk with its id.  After commits 1 and 2 the reply is             *)
(* RollbackOk{1} (the witness).                                            *)
C8_RollbackSecondNewest ==
    [][last'.op \in {"Rollback", "set_current"} =>
       LET c == last'.c IN
        /\ \A h \in Hostnames :
            (/\ last'.op = "Rollback"
             /\ RecvRollback(c, Rollback(h, None), 0)
             /\ Cardinality(SiteRows(sites, snapshots, h)) >= 2)
            => /\ cst'[c].st = "RollbackListed"
               /\ cst'[c].target = SecondNewest(sites, snapshots, h)
               /\ last'.reply = NoReply
        /\ (/\ last'.op = "set_current"
            /\ cst[c].snapshot_id = None
            /\ RollbackSet(c, 0))
           => /\ last'.reply = RollbackOk(cst[c].target)
              /\ CurrentView(sites', snapshots')[cst[c].hostname[1]] # None
              /\ CurrentView(sites', snapshots')[cst[c].hostname[1]][1].id = cst[c].target
              /\ cst'[c].st = "Ready"]_vars

\* Ids 1 and 2 belong to HostA, 2 was current, Rollback{HostA, None} was
\* answered RollbackOk{1} and 1 is current.
C8_Witness ==
    /\ Len(snapshots) = 2
    /\ SiteRows(sites, snapshots, HostA) = {1, 2}
    /\ prevCur[SiteId(sites, HostA)[1]] = 2
    /\ last.op = "set_current"
    /\ last.frame = Rollback(HostA, None)
    /\ last.reply = RollbackOk(1)
    /\ CurrentView(sites, snapshots)[HostA][1].id = 1

C10_RollbackFailedNoChange ==
    [][last'.op \in {"Rollback", "set_current"} =>
       LET c == last'.c IN
        /\ \A h \in Hostnames :
            (/\ last'.op = "Rollback"
             /\ Cardinality(SiteRows(sites, snapshots, h)) < 2
             /\ RecvRollback(c, Rollback(h, None), 0))
            => /\ last'.reply.type = "RollbackFailed"
               /\ snapshots' = snapshots
               /\ cst'[c].st = "Ready"
        /\ \A f \in 0..4 :
            (/\ last'.op = "set_current"
             /\ cst[c].target \notin SiteRows(sites, snapshots, cst[c].hostname[1])
             /\ RollbackSet(c, f))
            => /\ snapshots' = snapshots
               /\ f = 0 => /\ last'.reply.type = "RollbackFailed"
                           /\ cst'[c].st = "Ready"]_vars

\* Rollback{HostB, 1} refused: snapshot 1 belongs to HostA, HostB has a
\* current snapshot of its own.
C10_Witness ==
    /\ last.op = "set_current"
    /\ last.frame = Rollback(HostB, Some(1))
    /\ last.reply = RollbackFailed("Snapshot not found")
    /\ SiteRows(sites, snapshots, HostA) = {1}
    /\ SiteRows(sites, snapshots, HostB) = {2}
    /\ snapshots[1].is_current
    /\ snapshots[2].is_current
    /\ cst[last.c].st = "Ready"

(* C11: set_current_snapshot(hostname, id) returns true only when id is a  *)
(* snapshot row of the site of hostname, and then id is the only current   *)
(* snapshot of that site and the rows of other sites are as before; when   *)
(* the site or the snapshot is not found it returns false and writes       *)
(* nothing.  The handler answers RollbackOk exactly when it returned true. *)
C11_SetCurrentSnapshot ==
    [][last'.op = "set_current" =>
       LET c == last'.c
           h == cst[c].hostname[1]
           id == cst[c].target
           R == SiteRows(sites, snapshots, h)
       IN  \A f \in 0..4 :
            RollbackSet(c, f)
            => LET ret == set_current_snapshot(sites, snapshots, h, id, f).ret IN
               /\ ret = Ok(TRUE)
                    => /\ id \in R
                       /\ {i \in R : snapshots'[i].is_current} = {id}
                       /\ \A i \in (1..Len(snapshots)) \ R : snapshots'[i] = snapshots[i]
                       /\ Len(snapshots') = Len(snapshots)
               /\ (f = 0 /\ id \notin R)
                    => /\ ret = Ok(FALSE)
                       /\ snapshots' = snapshots
               /\ (f = 0 /\ id \in R) => ret = Ok(TRUE)
               /\ (last'.reply.type = "RollbackOk") <=> (ret = Ok(TRUE))]_vars

\* HostB has snapshots 1 and 2; set_current_snapshot(HostB, 1), asked for by
\* id, returned true and 1 is the only current snapshot of HostB.
C11_Witness ==
    /\ last.op = "set_current"
    /\ last.frame = Rollback(HostB, Some(1))
    /\ last.reply = RollbackOk(1)
    /\ SiteRows(sites, snapshots, HostB) = {1, 2}
    /\ snapshots[1].is_current
    /\ ~snapshots[2].is_current

(* C12: two connections commit to one hostname at the same time.  The      *)
(* create_snapshot calls are serialized: every CommitOk carries the next   *)
(* row id, greater than every id handed out before, and right after it the *)
(* new row is the only current snapshot of the site and what               *)
(* get_current_snapshot returns.  When both commits are acknowledged, the  *)
(* current snapshot is the one with the greater id.                        *)
C12_LatestCommitWins ==
    [][last'.reply.type = "CommitOk" =>
       LET c == last'.c
           id == last'.reply.snapshot_id
           s == cst[c].site_id
       IN  CommitInsert(c, 0)
           => /\ id = Len(snapshots) + 1
              /\ Len(snapshots') = id
              /\ \A i \in 1..Len(snapshots) : snapshots'[i].tree_data = snapshots[i].tree_data
              /\ {i \in 1..Len(snapshots') :
                    snapshots'[i].site_id = s /\ snapshots'[i].is_current} = {id}
              /\ id = MaxOf(SiteRows(sites', snapshots', cst[c].hostname[1]))
              /\ get_current_snapshot(sites', snapshots', cst[c].hostname[1], 0)
                   = Ok(Some([id |-> id, tree |-> cst[c].tree[1]]))]_vars

\* Both handlers were past get_or_create_site before either inserted; both
\* were answered CommitOk, ids 1 and 2, with different trees; snapshot 2 is
\* current and snapshot 1 is not.
C12_Witness ==
    /\ Len(snapshots) = 2
    /\ SiteRows(sites, snapshots, HostA) = {1, 2}
    /\ snapshots[1].tree_data # snapshots[2].tree_data
    /\ last.reply = CommitOk(2)
    /\ \A c \in Conns : cst[c].st = "Ready"
    /\ snapshots[2].is_current
    /\ ~snapshots[1].is_current

(* C13 (as claimed): on a connection in Ready every HaveChunks, ChunkData, *)
(* CommitTree, ListSnapshots or Rollback frame is answered by exactly one  *)
(* frame of the matching kind (NeedChunks, ChunkAck, CommitOk or           *)
(* CommitFailed, SnapshotList, RollbackOk or RollbackFailed), in request   *)
(* order: a handler that ends has sent its answer, and until it has ended  *)
(* the connection takes no other frame.                                    *)
C13_OneReplyPerFrame ==
    [][last'.op \in {"HaveChunks", "ChunkData", "CommitTree", "create_snapshot",
                     "cleanup", "ListSnapshots", "Rollback", "set_current"} =>
       LET c == last'.c
           op == last'.op
           t == last'.reply.type
       IN  /\ op = "HaveChunks" => t = "NeedChunks"
           /\ op = "ChunkData" => t = "ChunkAck"
           /\ op = "ListSnapshots" => t = "SnapshotList"
           /\ op = "CommitTree"
                => \/ t = "CommitFailed"
                   \/ t = "none" /\ cst'[c].st = "CommitSite"
           /\ op \in {"create_snapshot", "cleanup"} => t = "CommitOk"
           /\ op = "Rollback"
                => \/ t = "RollbackFailed"
                   \/ t = "none" /\ cst'[c].st = "RollbackListed"
           /\ op = "set_current" => t \in {"RollbackOk", "RollbackFailed"}
           /\ cst[c].st = "CommitSite" <=> op \in {"create_snapshot", "cleanup"}
           /\ cst[c].st = "RollbackListed" <=> op = "set_current"]_vars

C15_RevocationNewSessionsOnly ==
    [][/\ last'.op = "revoke_token" =>
          \A token \in {TokenT, TokenBad}, f \in 0..1 :
            RevokeToken(token, f)
            => /\ cst' = cst
               /\ f = 0 => token \notin tokens'
               /\ tokens' \subseteq tokens
       /\ last'.op = "first" =>
          \A token \in {TokenT, TokenBad} :
            (token \notin tokens /\ RecvFirst(last'.c, Auth(token), 0))
            => /\ last'.reply = AuthFailed
               /\ cst'[last'.c].st = "Closed"
       /\ (last'.op = "ChunkData" /\ tokens = {}) =>
          \A fr \in ChunkFrames :
            RecvChunkData(last'.c, fr, 0)
            => /\ last'.reply = ChunkAck(fr.hash)
               /\ get_chunk(chunks', fr.hash, {}) = Ok(Some(fr.data))
               /\ cst'[last'.c].st = "Ready"
       /\ (last'.op = "CommitTree" /\ tokens = {}) =>
          \A fr \in CommitFrames :
            (/\ last'.frame.hostname = fr.hostname
             /\ \A i \in 1..Len(ChunkRefs(fr.tree)) :
                    ChunkRefs(fr.tree)[i] \in Stored(chunks)
             /\ RecvCommitTree(last'.c, fr, {}, 0))
            => cst'[last'.c].st = "CommitSite"
       /\ (last'.op = "create_snapshot" /\ tokens = {}) =>
          (CommitInsert(last'.c, 0)
            => /\ last'.reply = CommitOk(Len(snapshots) + 1)
               /\ cst'[last'.c].st = "Ready")]_vars

\* The token is revoked; one connection was refused, the other one, which
\* authenticated while the token was valid, has just been answered CommitOk.
C15_Witness ==
    /\ tokens = {}
    /\ last.op = "create_snapshot"
    /\ last.reply.type = "CommitOk"
    /\ cst[last.c].st = "Ready"
    /\ \E d \in Conns : d # last.c /\ cst[d].st = "Closed"
    /\ chunks # {}

(* C16: a first frame Auth whose token is not in the token table is        *)
(* answered by one AuthFailed and the connection is closed, with nothing   *)
(* written; a closed connection stays closed and takes no further step, so *)
(* it never reaches Ready and no later frame of it is processed.           *)
C16_BadTokenAuthFailed ==
    [][/\ last'.op = "first" =>
          \A token \in {TokenT, TokenBad}, f \in 0..1 :
            (token \notin tokens /\ RecvFirst(last'.c, Auth(token), f))
            => /\ f = 0 => last'.reply = AuthFailed
               /\ last'.reply \in {AuthFailed, NoReply}
               /\ cst'[last'.c].st = "Closed"
               /\ UNCHANGED <<chunks, sites, snapshots, tokens>>
       /\ \A c \in Conns :
            cst[c].st = "Closed" => (cst'[c].st = "Closed" /\ last'.c # c)
       /\ last'.reply = AuthFailed =>
            (last'.op = "first" /\ cst[last'.c].st = "Start")]_vars

\* The table holds TokenT; a connection whose first frame was an Auth with
\* another token was answered AuthFailed and is closed, while the other
\* connection is Ready.
C16_Witness ==
    /\ tokens = {TokenT}
    /\ last.op = "first"
    /\ last.frame.type = "Auth"
    /\ last.reply = AuthFailed
    /\ cst[last.c].st = "Closed"
    /\ \E d \in Conns : cst[d].st = "Ready"

(* C17: has_chunks(Hs) returns exactly the elements of Hs whose digest has *)
(* a row, in input order, a digest that occurs several times in Hs as      *)
(* often in the result: the k-th element of the result is the k-th element *)
(* of Hs that is stored.  The call changes no row; a digest gets a row     *)
(* only by a store_chunk that returned Ok, and never loses it.             *)
C17_HasChunksInputOrder ==
    [][/\ last'.op = "has_chunks" =>
          \A hashes \in StoreHashLists, bad \in BadSets :
            (last'.frame.hashes = hashes /\ HasChunksCall(hashes, bad))
            => LET ret == last'.reply.ret
                   idx == {i \in 1..Len(hashes) : hashes[i] \in Stored(chunks)}
               IN  /\ chunks' = chunks
                   /\ ret.ok <=> (bad \cap Elems(hashes) = {})
                   /\ ret.ok =>
                        /\ Len(ret.val) = Cardinality(idx)
                        /\ \A i \in idx :
                            ret.val[Cardinality({j \in idx : j <= i})] = hashes[i]
       /\ Stored(chunks) \subseteq Stored(chunks')
       /\ Stored(chunks') # Stored(chunks) =>
            /\ last'.op = "store_chunk"
            /\ last'.reply.ret.ok
            /\ Stored(chunks') = Stored(chunks) \cup {last'.frame.hash}]_vars

\* Only D2 is stored; has_chunks([D2, D1, D2]) returned [D2, D2].
C17_Witness ==
    /\ last.op = "has_chunks"
    /\ last.frame.hashes = <<D2, D1, D2>>
    /\ last.reply.ret = Ok(<<D2, D2>>)
    /\ Stored(chunks) = {D2}

(* C18: store_chunk is idempotent.  A successful store_chunk(d, b) leaves  *)
(* a store on which a second store_chunk(d, b) changes nothing; when the   *)
(* row (d, b) is there already the call returns Ok and changes nothing;    *)
(* get_chunk(d) returns b after the first call and after the second; the   *)
(* rows of other digests are untouched.                                    *)
C18_StoreChunkIdempotent ==
    [][last'.op = "store_chunk" =>
       \A hash \in Digests, data \in Payloads :
        (/\ last'.frame.hash = hash
         /\ last'.frame.data = data
         /\ StoreChunkCall(hash, data, 0))
        => LET twice == store_chunk(chunks', hash, data, 0) IN
           /\ last'.reply.ret = Ok(None)
           /\ get_chunk(chunks', hash, {}) = Ok(Some(data))
           /\ twice.ret = Ok(None)
           /\ twice.chunks = chunks'
           /\ get_chunk(twice.chunks, hash, {}) = Ok(Some(data))
           /\ \A r \in chunks : r.hash # hash => r \in chunks'
           /\ [hash |-> hash, data |-> data] \in chunks => chunks' = chunks]_vars

\* The second of two equal calls: store_chunk(d, b) returned Ok on a store
\* in which get_chunk(d) was b already, and another digest is stored too.
C18_Witness ==
    /\ last.op = "store_chunk"
    /\ last.reply.ret.ok
    /\ last.reply.before = Some(last.frame.data)
    /\ Cardinality(chunks) = 2

\* A snapshot with the tree of the running push has been committed.
TreeCommitted ==
    \E i \in 1..Len(snapshots) : snapshots[i].tree_data = Serialize(client.tree[1])

(* C19: once a push of a tree T is committed, a later push of the same T   *)
(* is answered an empty NeedChunks for every HaveChunks batch, queues no   *)
(* chunk and goes on to CommitTree without a ChunkData: it is never in its *)
(* sending loop.                                                           *)
C19_SecondPushSendsNothing ==
    [][/\ (client.pc = "have" /\ last'.op = "HaveChunks" /\ TreeCommitted) =>
          \A bad \in BadSets :
            PushHaveChunks(bad)
            => /\ last'.reply.type = "NeedChunks" => last'.reply.hashes = <<>>
               /\ last'.reply.type = "NeedChunks" <=> ~last'.err
               /\ client'.to_send = <<>>
               /\ client'.pc \in {"have", "commit", "done"}
               /\ chunks' = chunks
       /\ client.pc \in {"have", "send", "commit"} /\ TreeCommitted
            => client.to_send = <<>> /\ client.pc # "send"
       /\ (last'.op = "ChunkData" /\ last'.c = PushConn) => ~TreeCommitted]_vars

\* The second push of a file of two chunks: its tree is in a committed
\* snapshot, its HaveChunks was answered NeedChunks [] and it is about to
\* send CommitTree.
C19_Witness ==
    /\ client.pc = "commit"
    /\ Len(client.chunks) = 2
    /\ TreeCommitted
    /\ last.op = "HaveChunks"
    /\ last.c = PushConn
    /\ last.reply = NeedChunks(<<>>)
    /\ client.to_send = <<>>

(* C20 (as claimed): during a push the client sends a ChunkData frame only *)
(* for a digest the server does not hold when the frame is sent (so at     *)
(* most one ChunkData for each distinct digest).                           *)
C20_OnlyUnseenChunks ==
    [][(client.pc = "send" /\ last'.op = "ChunkData" /\ last'.c = PushConn)
        => Head(client.to_send).hash \notin Stored(chunks)]_vars

\* The names of a request path (its non-empty segments).
Segments(path) == SelectSeq(path, IsName)

\* The File a request is served from: the node of the path, or for a
\* directory the node of its index.html; None when there is none.
ServedFile(tree, path) ==
    LET node == find_node(tree, path)
        index == find_node(tree, path \o <<"/", "index.html">>)
    IN  IF node = None THEN None
        ELSE IF node[1].kind = "File" THEN node
        ELSE IF index # None /\ index[1].kind = "File" THEN index
        ELSE None

\* The bytes stored for a digest.
DataOf(rows, h) == (CHOOSE r \in rows : r.hash = h).data

(* C21: when the path of a request resolves to a File, the response is 200 *)
(* with the concatenation of get_chunk(d) over File.chunks in order; when  *)
(* a digest has no row (and no lookup errs) it is 500 "Missing chunk";     *)
(* when a lookup errs it is 500; a 200 never carries a partial body.       *)
C21_ReassembledBody ==
    [][last'.op = "http" =>
       LET host == last'.frame.host
           path == last'.frame.path
           view == CurrentView(sites, snapshots)[StripPort(host)]
       IN  (StripPort(host) \in Hostnames /\ view # None
              /\ ServedFile(view[1].tree, path) # None)
           => LET hs == ServedFile(view[1].tree, path)[1].chunks
                  absent == {i \in 1..Len(hs) : hs[i] \notin Stored(chunks)}
                  whole == Flatten([i \in 1..Len(hs) |->
                                IF i \in absent THEN <<>> ELSE DataOf(chunks, hs[i])])
              IN  \A f \in 0..1, bad \in BadSets :
                    HttpGet(host, path, f, bad)
                    => LET erring == {i \in 1..Len(hs) : hs[i] \in bad} IN
                       /\ (f = 0 /\ absent = {} /\ erring = {})
                            => last'.reply = Response(200, whole)
                       /\ (f = 0 /\ absent # {} /\ erring = {})
                            => last'.reply = Response(500, <<"Missing chunk">>)
                       /\ (f = 1 \/ erring # {}) => last'.reply.status = 500
                       /\ last'.reply.status = 200
                            => (absent = {} /\ last'.reply.body = whole)]_vars

\* /docs is served from docs/index.html, a file of the chunks D1, D2; D1
\* has a row and D2 has none: the answer is 500 "Missing chunk".
C21_Witness ==
    /\ last.op = "http"
    /\ last.frame = Get(HostA, <<"/", "docs">>)
    /\ Stored(chunks) = {D1}
    /\ last.reply = Response(500, <<"Missing chunk">>)

\* The walk from a node along a list of names: each name selects the child
\* of that name of the current Directory.
RECURSIVE Walk(_, _)
Walk(node, segs) ==
    IF segs = <<>> THEN Some(node)
    ELSE IF node.kind # "Directory" THEN None
    ELSE LET kids == {k \in Elems(node.children) : k.name = Head(segs)}
         IN  IF kids = {} THEN None
             ELSE Walk(CHOOSE k \in kids : TRUE, Tail(segs))

(* C22: for a path whose list of non-empty segments is not empty,          *)
(* find_node returns the node reached by walking from the root, matching   *)
(* each segment against a child name of the current Directory, and None    *)
(* when a segment has no matching child or the walk would pass through a   *)
(* File; empty segments are dropped and ".." is matched as a name.         *)
C22_FindNodeWalk ==
    [][last'.op = "find_node" =>
       LET tree == last'.frame.tree
           segs == Segments(last'.frame.path)
       IN  segs # <<>> =>
             /\ last'.reply.ret = Walk(tree, segs)
             /\ (\E i \in 1..Len(segs) :
                    LET at == Walk(tree, SubSeq(segs, 1, i - 1)) IN
                    \/ at = None
                    \/ at[1].kind = "File"
                    \/ \A k \in Elems(at[1].children) : k.name # segs[i])
                 <=> last'.reply.ret = None]_vars

\* /css//style.css resolves to the file style.css of the directory css.
C22_Witness ==
    /\ last.op = "find_node"
    /\ last.frame.tree = TreeTwo
    /\ last.frame.path = <<"/", "css", "/", "/", "style.css">>
    /\ last.reply.ret = Some(FileNode("style.css", <<D2>>))

\* /css/../index.html does not resolve: css has no child named "..".
C22_WitnessDotDot ==
    /\ last.op = "find_node"
    /\ last.frame.tree = TreeTwo
    /\ last.frame.path = <<"/", "css", "/", "..", "/", "index.html">>
    /\ last.reply.ret = None

(* C23: a request whose path resolves to a Directory (the root for "/") is *)
(* answered with the body of the File that the path followed by            *)
(* "/index.html" resolves to under the same walk, and with 404 when that   *)
(* is not a File; the fallback is applied once, not again to a directory   *)
(* named index.html.                                                       *)
C23_IndexFallbackOnce ==
    [][last'.op = "http" =>
       LET host == last'.frame.host
           path == last'.frame.path
           view == CurrentView(sites, snapshots)[StripPort(host)]
       IN  (StripPort(host) \in Hostnames /\ view # None)
           => LET tree == view[1].tree
                  at == Walk(tree, Segments(path))
                  index == Walk(tree, Segments(path) \o <<"index.html">>)
              IN  (at # None /\ at[1].kind = "Directory")
                  => \A bad \in BadSets :
                       HttpGet(host, path, 0, bad)
                       => IF index # None /\ index[1].kind = "File"
                          THEN /\ last'.reply = Reassemble(index[1].chunks, chunks, bad, <<>>)
                               /\ (bad = {} /\ Elems(index[1].chunks) \subseteq Stored(chunks))
                                    => last'.reply =
                                         Response(200, Flatten([i \in 1..Len(index[1].chunks)
                                                     |-> DataOf(chunks, index[1].chunks[i])]))
                          ELSE last'.reply = Response(404, <<"Not found">>)]_vars

\* "/" of a site whose index.html is a directory holding a file index.html:
\* the answer is 404.
C23_Witness ==
    /\ last.op = "http"
    /\ last.frame = Get(HostA, <<"/">>)
    /\ snapshots[1].tree_data = Serialize(TreeIdx)
    /\ last.reply = Response(404, <<"Not found">>)

\* /docs is answered with the bytes of docs/index.html.
C23_WitnessServed ==
    /\ last.op = "http"
    /\ last.frame = Get(HostA, <<"/", "docs">>)
    /\ last.reply = Response(200, P1 \o P2)

(* C24: a path with an empty list of segments ("/") resolves to the root   *)
(* node itself; when the root node is a File (a snapshot pushed from one   *)
(* regular file) that File is the response body.                           *)
C24_EmptyPathIsRoot ==
    [][/\ (last'.op = "find_node" /\ Segments(last'.frame.path) = <<>>)
            => last'.reply.ret = Some(last'.frame.tree)
       /\ (last'.op = "http" /\ Segments(last'.frame.path) = <<>>)
            => LET host == last'.frame.host
                   view == CurrentView(sites, snapshots)[StripPort(host)]
               IN  (StripPort(host) \in Hostnames /\ view # None
                      /\ view[1].tree.kind = "File")
                   => \A bad \in BadSets :
                        HttpGet(host, last'.frame.path, 0, bad)
                        => last'.reply =
                             Reassemble(view[1].tree.chunks, chunks, bad, <<>>)]_vars

\* What the code does: "/" of a snapshot whose root is a File is answered
\* 404 although both chunks of the file are stored.
C24_FileRootNotFound ==
    /\ last.op = "http"
    /\ last.frame = Get(HostA, <<"/">>)
    /\ snapshots[1].tree_data = Serialize(TreeFile)
    /\ Stored(chunks) = {D1, D2}
    /\ last.reply = Response(404, <<"Not found">>)

\* An entry of a scan lists what is under a path: a file with its bytes, a
\* directory with one child for each of its regular files and
\* sub-directories, nested in the same way, in ascending order of name.
RECURSIVE ListsAll(_, _)
ListsAll(entry, fs) ==
    IF fs.kind = "file" THEN entry.kind = "File" /\ entry.data = fs.data
    ELSE /\ entry.kind = "Directory"
         /\ LET kept == {i \in 1..Len(fs.children) :
                            fs.children[i].entry.kind \in {"file", "dir"}}
            IN  /\ Len(entry.children) = Cardinality(kept)
                /\ \A i \in 1..Len(entry.children) - 1 :
                      NameRank(entry.children[i].name)
                          < NameRank(entry.children[i + 1].name)
                /\ \A i \in kept : \E j \in 1..Len(entry.children) :
                      /\ entry.children[j].name = fs.children[i].name
                      /\ ListsAll(entry.children[j], fs.children[i].entry)

(* C25: the first entry yielded by scan_directory(path) is the root entry, *)
(* named "", whose children are the regular files and sub-directories of   *)
(* the directory (symlinks skipped), nested recursively, every list of     *)
(* children sorted ascending by name.                                      *)
C25_FirstEntryIsWholeTree ==
    [][(last'.op = "scan_directory" /\ last'.reply.ret.ok)
       => LET first == Head(last'.reply.ret.val)
          IN  first.name = "" /\ ListsAll(first, last'.frame.path)]_vars

\* What the code does: the first entry of the scan of the site directory is
\* the root with no children; the files follow as entries of their own.
C25_FirstEntryEmpty ==
    /\ last.op = "scan_directory"
    /\ last.frame.path = SiteDir
    /\ Head(last.reply.ret.val) = ScannedDirectory("", <<>>)
    /\ Len(last.reply.ret.val) = 4

(* C26: the archive round trip: read_archive of write_archive of           *)
(* build_tree of the first entry of scan_directory(T) recreates every file *)
(* of T at its relative path with the same bytes, and every sub-directory  *)
(* of T, the empty ones included.                                          *)
C26_ArchiveRoundTrip ==
    [][(last'.op = "archive" /\ last'.frame.dir.kind = "dir")
       => /\ last'.reply.ret.ok
          /\ FsFiles(last'.reply.ret.val, <<>>) = FsFiles(last'.frame.dir, <<>>)
          /\ FsSubdirs(last'.reply.ret.val, <<>>) = FsSubdirs(last'.frame.dir, <<>>)]_vars

\* What the code does: the archive of the directory with three entries is
\* extracted to an empty output directory.
C26_ExtractedEmpty ==
    /\ last.op = "archive"
    /\ last.frame.dir = NestedDir
    /\ last.reply.ret = Ok(FsDir(<<>>))

\* What list_snapshots returns for a hostname when no statement fails.
Listing(ss, snaps, hostname) == list_snapshots(ss, snaps, hostname, 0).val

(* C27: retention never removes the current snapshot: whatever keep is, a  *)
(* commit deletes no row with is_current = 1, and no snapshot row at all:  *)
(* every row stays with its id, site and tree, and each commit answered    *)
(* CommitOk adds exactly one entry to the list_snapshots of its hostname   *)
(* (so after n such commits, and no failed one, the list has n entries).   *)
C27_RetentionDeletesNothing ==
    [][/\ Len(snapshots') >= Len(snapshots)
       /\ \A i \in 1..Len(snapshots) :
             /\ snapshots'[i].site_id = snapshots[i].site_id
             /\ snapshots'[i].tree_data = snapshots[i].tree_data
       /\ \A h \in Hostnames :
             Len(Listing(sites', snapshots', h)) >= Len(Listing(sites, snapshots, h))
       /\ last'.reply.type = "CommitOk"
            => LET h == last'.frame.hostname
                   ids(l) == {l[i].id : i \in 1..Len(l)}
               IN  /\ Len(Listing(sites', snapshots', h))
                         = Len(Listing(sites, snapshots, h)) + 1
                   /\ ids(Listing(sites', snapshots', h))
                         = ids(Listing(sites, snapshots, h))
                              \cup {last'.reply.snapshot_id}
                   /\ snapshots'[last'.reply.snapshot_id].is_current]_vars

\* The second commit to a hostname is answered CommitOk{2}: the list has two
\* entries, the older one no longer current.
C27_Witness ==
    /\ last.reply = CommitOk(2)
    /\ last.frame.hostname = HostA
    /\ Listing(sites, snapshots, HostA)
         = <<[id |-> 2, is_current |-> TRUE], [id |-> 1, is_current |-> FALSE]>>

\* A byte string of fewer than MIN_SIZE blocks' worth of bytes: fewer blocks,
\* or MIN_SIZE blocks the last of which is the partial one.
ShorterThanMin(data) ==
    \/ Len(data) < MIN_SIZE
    \/ Len(data) = MIN_SIZE /\ data[Len(data)] = "p"

C28_WitnessMax ==
    /\ last.op = "chunk_data"
    /\ last.frame.data = <<"x", "x", "x", "x", "x", "p">>
    /\ last.reply.ret = <<Chunk(<<"x", "x", "x", "x">>), Chunk(<<"x", "p">>)>>

C29_WitnessFile ==
    /\ last.op = "build_tree"
    /\ last.frame.first = PlainFile
    /\ last.reply.ret[1] = [hash |-> Blake3(<<D2, D1>>), digests |-> <<D2, D1>>]
    /\ last.reply.ret[2] = last.reply.ret[1]

(* C30: in every reachable state, under every interleaving of the          *)
(* connections, every chunk digest referenced by the tree of a stored      *)
(* snapshot (and of a commit between its two critical sections) is present *)
(* in the chunk store; hence no HTTP GET is answered 500 "Missing chunk".  *)
C30_SnapshotChunksStored ==
    /\ \A i \in 1..Len(snapshots) :
          Elems(ChunkRefs(Deserialize(snapshots[i].tree_data))) \subseteq Stored(chunks)
    /\ \A c \in Conns :
          cst[c].st = "CommitSite"
            => Elems(ChunkRefs(cst[c].tree[1])) \subseteq Stored(chunks)
    /\ last.op = "http" => last.reply # Response(500, <<"Missing chunk">>)

\* The file css/style.css of the current snapshot of HostA is served while
\* two snapshot rows exist.
C30_Witness ==
    /\ last.op = "http"
    /\ last.frame = Get(HostA, <<"/", "css", "/", "style.css">>)
    /\ last.reply = Response(200, P2)
    /\ Len(snapshots) = 2

\* The rows of a site that have is_current = 1.
CurrentRows(snaps, s) ==
    {i \in 1..Len(snaps) : snaps[i].site_id = s /\ snaps[i].is_current}

(* C31: while no storage operation fails, a site that has a current        *)
(* snapshot has exactly one after every step of any connection (commit or  *)
(* rollback), so every get_current_snapshot in between finds one; an HTTP  *)
(* request for a host whose site had a current snapshot is never answered  *)
(* "Site not found".                                                       *)
C31_ReaderSeesOneCurrent ==
    [][/\ \A s \in SiteIds :
             CurrentOf(snapshots, s) # 0
               => Cardinality(CurrentRows(snapshots', s)) = 1
       /\ \A h \in Hostnames :
             get_current_snapshot(sites, snapshots, h, 0).val # None
               => get_current_snapshot(sites', snapshots', h, 0).val # None
       /\ last'.op = "http" =>
             LET sid == SiteId(sites, StripPort(last'.frame.host)) IN
             (sid # None /\ CurrentOf(snapshots, sid[1]) # 0)
               => /\ last'.reply # Response(404, <<"Site not found">>)
                  /\ last'.reply.status # 500]_vars

\* After two commits to HostA and a rollback, snapshot 1 is the current one
\* and a request for /index.html is served.
C31_Witness ==
    /\ last.op = "http"
    /\ last.frame = Get(HostA, <<"/", "index.html">>)
    /\ last.reply.status = 200
    /\ Len(snapshots) = 2
    /\ CurrentRows(snapshots, 1) = {1}
    /\ snapshots[2].site_id = 1

(* C32: a HaveChunks{digests} whose lookups do not fail is answered        *)
(* NeedChunks with exactly the input digests that have no row in the chunk *)
(* store when the frame is processed, in input order (repeats kept); the   *)
(* handler stores nothing and the connection stays Ready.                  *)
C32_NeedChunksIsInputMinusStored ==
    [][last'.op = "HaveChunks" =>
       \A fr \in HaveFrames :
          RecvHaveChunks(last'.c, fr, {})
          => LET absent == {i \in 1..Len(fr.hashes) : fr.hashes[i] \notin Stored(chunks)}
                 need == last'.reply.hashes
             IN  /\ last'.reply.type = "NeedChunks"
                 /\ Len(need) = Cardinality(absent)
                 /\ \A i \in absent :
                       need[Cardinality({j \in absent : j <= i})] = fr.hashes[i]
                 /\ chunks' = chunks
                 /\ cst'[last'.c].st = "Ready"
                 /\ UNCHANGED <<sites, snapshots, tokens>>]_vars

\* D1 is stored and D2 is not: HaveChunks{D2, D1, D2} is answered
\* NeedChunks{D2, D2}.
C32_Witness ==
    /\ last.op = "HaveChunks"
    /\ Stored(chunks) = {D1}
    /\ last.reply = NeedChunks(<<D2, D2>>)
    /\ cst[last.c].st = "Ready"

\* The digests of a sequence of chunks.
HashesOf(cs) == [i \in 1..Len(cs) |-> cs[i].hash]

(* C33: the push client keeps a strict order.  Its first frame is Auth and *)
(* it goes on only after AuthOk; then it sends the HaveChunks batches, of  *)
(* at most BATCH_SIZE digests each, in the order of the chunks, and        *)
(* goes on after each NeedChunks; it sends a ChunkData only when every     *)
(* batch has been answered, one per queued chunk, the next one after the   *)
(* ChunkAck of the one before; it sends CommitTree only when every queued  *)
(* chunk has been acknowledged.                                            *)
C33_PushOrder ==
    [][last'.c = PushConn =>
       LET all == client.batch > NumBatches(client.chunks) IN
       /\ last'.op = "first"
            => /\ client.pc = "auth"
               /\ last'.frame.type = "Auth"
               /\ client'.pc # "done" => last'.reply = AuthOk
       /\ last'.op = "HaveChunks"
            => LET batch == Batch(client.chunks, client.batch) IN
               /\ client.pc = "have" /\ cst[PushConn].st = "Ready"
               /\ Len(batch) \in 1..BATCH_SIZE
               /\ batch = SubSeq(client.chunks, BATCH_SIZE * (client.batch - 1) + 1,
                                 BATCH_SIZE * (client.batch - 1) + Len(batch))
               /\ Len(batch) < BATCH_SIZE
                    => BATCH_SIZE * (client.batch - 1) + Len(batch) = Len(client.chunks)
               /\ \E bad \in BadSets :
                     RecvHaveChunks(PushConn, HaveChunks(HashesOf(batch)), bad)
               /\ client'.pc # "done"
                    => /\ last'.reply.type = "NeedChunks"
                       /\ client'.batch = client.batch + 1
                       /\ client'.pc \in {"send", "commit"}
                            => BATCH_SIZE * client.batch >= Len(client.chunks)
       /\ last'.op = "ChunkData"
            => /\ client.pc = "send" /\ all
               /\ \E f \in 0..1 :
                     RecvChunkData(PushConn,
                                   ChunkData(Head(client.to_send).hash,
                                             Head(client.to_send).data), f)
               /\ client'.pc # "done"
                    => /\ last'.reply = ChunkAck(Head(client.to_send).hash)
                       /\ client'.to_send = Tail(client.to_send)
       /\ last'.op = "CommitTree"
            => /\ client.pc = "commit" /\ all
               /\ client.to_send = <<>>
               /\ last'.frame.hostname = client.hostname[1]]_vars

\* The third batch of the file of five chunks has been answered: the five
\* chunks are queued and the client turns to sending them.
C33_Witness ==
    /\ last.op = "HaveChunks"
    /\ last.c = PushConn
    /\ client.batch = 4
    /\ Len(client.to_send) = 5
    /\ client.pc = "send"

\* The commit of that file, after five acknowledged ChunkData frames.
C33_WitnessCommitted ==
    /\ Len(client.chunks) = 5
    /\ client.pc = "done"
    /\ client.result = Ok(1)

(* C34: with a valid token and no failing statement, a push that has       *)
(* connected returns Ok with the id of its snapshot: its CommitTree is     *)
(* answered CommitOk and never CommitFailed, whatever the other connection *)
(* uploads, commits or rolls back meanwhile, and no chunk row is removed.  *)
C34_PushCommits ==
    /\ (client.pc = "auth") ~> (client.pc = "done" /\ client.result.ok)
    /\ [](last.c = PushConn => last.reply.type # "CommitFailed" /\ ~last.err)
    /\ [][\A r \in chunks : \E q \in chunks' : q.hash = r.hash]_vars

\* The push of the five-chunk file has returned the id of its snapshot after
\* the other connection committed one and a rollback ran.
C34_Witness ==
    /\ client.pc = "done"
    /\ client.result.ok
    /\ Len(client.chunks) = 5
    /\ client.result.val = 2
    /\ Len(snapshots) = 2

(* C35 (as claimed): when the handling of a CommitTree frame meets a       *)
(* storage error - a chunk lookup of verify_tree_chunks, the INSERT of the *)
(* site or a statement of the snapshot insert - the server answers         *)
(* CommitFailed and the connection is in Ready afterwards.                 *)
C35_CommitErrorAnswered ==
    (/\ last.c \in Conns
     /\ last.op \in {"CommitTree", "create_snapshot"}
     /\ last.err \/ last.reply.type = "CommitFailed")
        => /\ last.reply.type = "CommitFailed"
           /\ cst[last.c].st = "Ready"

\* What the code does with a failing site or snapshot insert: no reply, and
\* the connection task has ended.
C35_CommitErrorUnanswered ==
    /\ last.c \in Conns
    /\ last.op \in {"CommitTree", "create_snapshot"}
    /\ last.err
    /\ last.reply = NoReply
    /\ cst[last.c].st = "Closed"

(* C36 (as claimed): a text, ping or pong frame is ignored wherever it     *)
(* arrives, the first frame of a connection included: no reply, no change  *)
(* of the connection or of the store, no error, the connection stays open; *)
(* of the non-binary frames only Close ends the session.                   *)
C36_NonBinaryIgnored ==
    [][(last'.c \in Conns /\ last'.frame.type = "Text")
         => /\ last'.reply = NoReply
            /\ ~last'.err
            /\ cst' = cst
            /\ cst'[last'.c].st # "Closed"
            /\ UNCHANGED <<chunks, sites, snapshots, tokens>>]_vars

\* What the code does with a text frame after AuthOk: it is skipped.
C36_SkippedInLoop ==
    /\ last.c \in Conns
    /\ last.op = "other"
    /\ last.frame.type = "Text"
    /\ last.reply = NoReply
    /\ cst[last.c].st = "Ready"

(* C37: snapshot ids grow in the order in which create_snapshot calls take *)
(* effect, with one counter for all sites, and no id is given twice: a     *)
(* call that inserts a row gives it an id above every id there is, the     *)
(* rows before keep theirs, and a CommitOk carries that id.  So the        *)
(* listing of a site, by id descending, is newest-created first, and each  *)
(* successful create_snapshot adds one entry at its head and none to the   *)
(* listing of another site; no other step changes the ids of a listing.    *)
C37_IdsIncrease ==
    [][LET ids(l) == [i \in 1..Len(l) |-> l[i].id]
           before(h) == ids(Listing(sites, snapshots, h))
           after(h) == ids(Listing(sites', snapshots', h))
       IN  /\ \A h \in Hostnames : \A i \in 1..(Len(after(h)) - 1) :
                 after(h)[i] > after(h)[i + 1]
           /\ IF Len(snapshots') # Len(snapshots)
              THEN /\ last'.op \in {"create_snapshot", "cleanup"}
                   /\ Len(snapshots') = Len(snapshots) + 1
                   /\ \A h \in Hostnames : \A i \in 1..Len(before(h)) :
                         Len(snapshots') > before(h)[i]
                   /\ \E h \in Hostnames :
                         /\ h = last'.frame.hostname
                         /\ after(h) = <<Len(snapshots')>> \o before(h)
                         /\ \A g \in Hostnames \ {h} : after(g) = before(g)
                   /\ last'.reply.type = "CommitOk"
                         => last'.reply.snapshot_id = Len(snapshots')
              ELSE /\ \A h \in Hostnames : after(h) = before(h)
                   /\ last'.reply.type # "CommitOk"
           /\ \A c \in Conns, fr \in ListFrames :
                 RecvListSnapshots(c, fr, 0)
                    => ids(last'.reply.snapshots) = after(fr.hostname)]_vars

\* Commits to both sites took effect, and the listing of the second site
\* has been sent.
C37_Witness ==
    /\ Len(snapshots) = 2
    /\ snapshots[1].site_id # snapshots[2].site_id
    /\ last.reply.type = "SnapshotList"
    /\ Len(last.reply.snapshots) = 1
    /\ last.reply.snapshots[1].id = 2

(* C38: sites are isolated: a create_snapshot or a set_current_snapshot    *)
(* for a hostname, failed statements included, leaves every snapshot row   *)
(* of every other site as it was (position, site, tree, is_current), also  *)
(* when set_current_snapshot is given the id of a row of another site;     *)
(* that call returns false.                                                *)
C38_SiteIsolation ==
    [][last'.op \in {"create_snapshot", "cleanup", "set_current"} =>
       LET sid == SiteId(sites, last'.frame.hostname)
           own(i) == sid # None /\ snapshots[i].site_id = sid[1]
       IN  /\ \A i \in 1..Len(snapshots) :
                 ~own(i) => /\ i <= Len(snapshots')
                            /\ snapshots'[i] = snapshots[i]
           /\ \A i \in (Len(snapshots) + 1)..Len(snapshots') :
                 sid # None /\ snapshots'[i].site_id = sid[1]
           /\ (/\ last'.op = "set_current"
               /\ cst[last'.c].target \in 1..Len(snapshots)
               /\ ~own(cst[last'.c].target))
                 => /\ snapshots' = snapshots
                    /\ ~last'.err => last'.reply = RollbackFailed("Snapshot not found")]_vars

\* A rollback of the second site to the id of a row of the first site, while
\* each of the two sites has a current snapshot, was refused.
C38_Witness ==
    /\ last.op = "set_current"
    /\ last.frame = Rollback(HostB, Some(1))
    /\ last.reply = RollbackFailed("Snapshot not found")
    /\ Len(snapshots) = 2
    /\ snapshots[1].site_id # snapshots[2].site_id
    /\ snapshots[1].is_current /\ snapshots[2].is_current

RECURSIVE ShapeOf(_)
ShapeOf(entry) ==
    [kind |-> entry.kind,
     chunks |-> IF entry.kind = "File" THEN HashInput(entry) ELSE <<>>,
     children |-> [i \in 1..Len(entry.children) |->
                     [name |-> entry.children[i].name,
                      permissions |-> entry.children[i].permissions,
                      shape |-> ShapeOf(entry.children[i])]]]

(* C40 (as claimed): the root hash identifies the tree: two trees built by *)
(* build_tree have equal root hashes only if they have the same shape, that*)
(* is the same node kinds, child names, child permissions and chunk digest *)
(* sequences at every level (BLAKE3 taken as injective).                   *)
C40_RootHashCanonical ==
    last.op = "root_hash"
        => (last.reply.ret[1] = last.reply.ret[2]
              => ShapeOf(last.frame.first) = ShapeOf(last.frame.second))

====
